---------------------------- MODULE Spec2Model ----------------------------
(***************************************************************************)
(* Model of the LavaPairingSystem pairing pipeline                         *)
(* (internal/system/system.go and the filter, score and utils packages).   *)
(*                                                                         *)
(* A *pairing.Provider is a pointer: an index into the heap Heap.  A       *)
(* float64 is a 53-bit significand and an exponent.  A Go map is a TLA+    *)
(* function; a nil or empty map is the empty function, and a range over a  *)
(* map visits its keys in an order the step chooses.                       *)
(***************************************************************************)
EXTENDS Integers, Sequences, FiniteSets, Bags, TLC

(***************************************************************************)
(* float64 arithmetic.  A natural number is a sequence of limbs to the     *)
(* base 2^15, least significant first, with no leading zero limb.  A       *)
(* float64 is <<m, e>> with value m * 2^e, where m is a natural number of  *)
(* exactly 53 bits, or <<<<>>, 0>> for 0.  The results of +, -, * and /    *)
(* are rounded to the nearest float64, ties to the even significand, as    *)
(* IEEE 754 binary64 does.  The values of the program are finite, not      *)
(* negative and in the normal range; a product and the sum it is added to  *)
(* are rounded separately.  An operator that uses an operand several times *)
(* binds it first, so that the operand is evaluated once.                  *)
(***************************************************************************)
LimbBits == 15
Base == 32768
SignificandBits == 53

\* F(e), with e evaluated once
Force(F(_), e) == CHOOSE r \in {F(x) : x \in {e}} : TRUE
Force2(F(_, _), d, e) == CHOOSE r \in {F(x, y) : x \in {d}, y \in {e}} : TRUE

\* the function f, with every value evaluated once
RECURSIVE EagerGo(_, _)
EagerGo(f, keys) ==
    Force(LAMBDA ks :
              IF ks = {} THEN <<>>
              ELSE Force(LAMBDA k : (k :> f[k]) @@ EagerGo(f, ks \ {k}),
                         CHOOSE x \in ks : TRUE),
          keys)

Eager(f) == EagerGo(f, DOMAIN f)

Limb(a, i) == IF i <= Len(a) THEN a[i] ELSE 0

Trim(a) ==
    Force(LAMBDA x :
              LET used == {i \in 1..Len(x) : x[i] # 0}
              IN  IF used = {} THEN <<>>
                  ELSE SubSeq(x, 1, CHOOSE i \in used : \A j \in used : j <= i),
          a)

\* the natural number n < 2^31
Nat15(n) ==
    Force(LAMBDA x : Trim(<<x % Base, (x \div Base) % Base, x \div (Base * Base)>>), n)

\* the number of bits of the limb x
RECURSIVE LimbLen(_)
LimbLen(x) == IF x = 0 THEN 0 ELSE 1 + LimbLen(x \div 2)

BitLen(a) ==
    Force(LAMBDA x : IF x = <<>> THEN 0
                     ELSE LimbBits * (Len(x) - 1) + LimbLen(x[Len(x)]),
          a)

\* bit k of a, bit 0 the least significant
Bit(a, k) == (Limb(a, (k \div LimbBits) + 1) \div (2 ^ (k % LimbBits))) % 2

\* the k least significant bits of a are 0
LowBitsZero(a, k) ==
    /\ \A i \in 1..(k \div LimbBits) : Limb(a, i) = 0
    /\ Limb(a, (k \div LimbBits) + 1) % (2 ^ (k % LimbBits)) = 0

RECURSIVE AddGo(_, _, _, _)
AddGo(a, b, i, c) ==
    IF i > Len(a) /\ i > Len(b)
    THEN IF c = 0 THEN <<>> ELSE <<c>>
    ELSE Force(LAMBDA t : <<t % Base>> \o AddGo(a, b, i + 1, t \div Base),
               Limb(a, i) + Limb(b, i) + c)

BAdd(a, b) == Force2(LAMBDA x, y : AddGo(x, y, 1, 0), a, b)

\* a - b for a >= b
RECURSIVE SubGo(_, _, _, _)
SubGo(a, b, i, c) ==
    IF i > Len(a) THEN <<>>
    ELSE Force(LAMBDA t : IF t < 0
                          THEN <<t + Base>> \o SubGo(a, b, i + 1, 1)
                          ELSE <<t>> \o SubGo(a, b, i + 1, 0),
               Limb(a, i) - Limb(b, i) - c)

BSub(a, b) == Force2(LAMBDA x, y : Trim(SubGo(x, y, 1, 0)), a, b)

\* a < b, for a and b without leading zero limbs
BLess(a, b) ==
    Force2(LAMBDA x, y :
               IF Len(x) # Len(y) THEN Len(x) < Len(y)
               ELSE \E i \in 1..Len(x) :
                        /\ x[i] < y[i]
                        /\ \A j \in (i + 1)..Len(x) : x[j] = y[j],
           a, b)

\* a * k for a limb k
RECURSIVE MulGo(_, _, _, _)
MulGo(a, k, i, c) ==
    IF i > Len(a)
    THEN IF c = 0 THEN <<>> ELSE <<c>>
    ELSE Force(LAMBDA t : <<t % Base>> \o MulGo(a, k, i + 1, t \div Base),
               a[i] * k + c)

BMulLimb(a, k) ==
    Force2(LAMBDA x, y : IF y = 0 THEN <<>> ELSE MulGo(x, y, 1, 0), a, k)

\* a * Base^n
ShiftLimbs(a, n) == IF a = <<>> THEN <<>> ELSE [i \in 1..n |-> 0] \o a

RECURSIVE BMulGo(_, _, _, _)
BMulGo(a, b, j, acc) ==
    IF j > Len(b) THEN acc
    ELSE Force(LAMBDA s : BMulGo(a, b, j + 1, s),
               BAdd(acc, ShiftLimbs(BMulLimb(a, b[j]), j - 1)))

BMul(a, b) == Force2(LAMBDA x, y : BMulGo(x, y, 1, <<>>), a, b)

\* a * 2^k
ShiftLeft(a, k) ==
    Force2(LAMBDA x, n : ShiftLimbs(BMulLimb(x, 2 ^ (n % LimbBits)), n \div LimbBits),
           a, k)

\* a divided by 2^k, the remainder dropped
ShiftRight(a, k) ==
    Force2(LAMBDA x, n :
               LET drop == n \div LimbBits
                   low == 2 ^ (n % LimbBits)
                   high == Base \div low
               IN  IF drop >= Len(x) THEN <<>>
                   ELSE Trim([i \in 1..(Len(x) - drop) |->
                                 (x[i + drop] \div low)
                                     + (Limb(x, i + drop + 1) % low) * high]),
           a, k)

\* x * 2^e with the k least significant bits of x rounded off, for x of 53 + k
\* bits: up when the bits dropped are more than half of the last bit kept,
\* or half of it and the last bit kept is 1
RoundOff(x, e, k) ==
    Force(LAMBDA q :
              IF /\ Bit(x, k - 1) = 1
                 /\ (~LowBitsZero(x, k - 1) \/ q[1] % 2 = 1)
              THEN Force(LAMBDA r : IF BitLen(r) > SignificandBits
                                    THEN <<ShiftRight(r, 1), e + k + 1>>
                                    ELSE <<r, e + k>>,
                         BAdd(q, <<1>>))
              ELSE <<q, e + k>>,
          ShiftRight(x, k))

\* the float64 nearest to n * 2^e, ties to the even significand
Round(n, e) ==
    Force2(LAMBDA x, len :
               IF len = 0 THEN <<<<>>, 0>>
               ELSE IF len <= SignificandBits
               THEN <<ShiftLeft(x, SignificandBits - len), e - (SignificandBits - len)>>
               ELSE RoundOff(x, e, len - SignificandBits),
           n, BitLen(n))

Zero == <<<<>>, 0>>

\* float64(n) for an integer 0 <= n < 2^31
FromInt(n) == Round(Nat15(n), 0)

\* hi + lo for the exponent of hi at least that of lo
FAddAligned(hi, lo) ==
    IF hi[2] - lo[2] > SignificandBits + 2 THEN hi
    ELSE Round(BAdd(ShiftLeft(hi[1], hi[2] - lo[2]), lo[1]), lo[2])

FAdd(a, b) ==
    Force2(LAMBDA x, y : IF x[1] = <<>> THEN y
                         ELSE IF y[1] = <<>> THEN x
                         ELSE IF x[2] < y[2] THEN FAddAligned(y, x)
                         ELSE FAddAligned(x, y),
           a, b)

\* a - b for a >= b
FSub(a, b) ==
    Force2(LAMBDA x, y : IF y[1] = <<>> THEN x
                         ELSE IF x[2] - y[2] > SignificandBits + 3 THEN x
                         ELSE Round(BSub(ShiftLeft(x[1], x[2] - y[2]), y[1]), y[2]),
           a, b)

\* the significand of a power of two
Unit == <<0, 0, 0, 128>>

\* a product with a power of two is exact: the exponents are added
FMul(a, b) ==
    Force2(LAMBDA x, y :
               IF x[1] = <<>> \/ y[1] = <<>> THEN Zero
               ELSE IF y[1] = Unit THEN <<x[1], x[2] + y[2] + SignificandBits - 1>>
               ELSE IF x[1] = Unit THEN <<y[1], x[2] + y[2] + SignificandBits - 1>>
               ELSE Round(BMul(x[1], y[1]), x[2] + y[2]),
           a, b)

\* the quotient of r by d, for r < d * Base and d of four limbs with its
\* most significant bit set: the estimate from the leading limbs is at most
\* two too large
RECURSIVE DigitGo(_, _, _)
DigitGo(r, d, q) ==
    IF BLess(r, BMulLimb(d, q)) THEN DigitGo(r, d, q - 1) ELSE q

DivDigit(r, d) ==
    Force(LAMBDA est : DigitGo(r, d, IF est < Base THEN est ELSE Base - 1),
          (Limb(r, 5) * Base + Limb(r, 4)) \div d[4])

\* i more limbs of the quotient, the remainder so far being r and the
\* quotient q: <<quotient, remainder>>
RECURSIVE DivGo(_, _, _, _)
DivGo(r, d, q, i) ==
    IF i = 0 THEN <<Trim(q), r>>
    ELSE Force(LAMBDA r2 :
                   Force(LAMBDA digit :
                             DivGo(BSub(r2, BMulLimb(d, digit)), d, <<digit>> \o q, i - 1),
                         DivDigit(r2, d)),
               ShiftLimbs(r, 1))

\* the quotient of x by y with 4 limbs after the point, for x < 2y
DivMod(x, y) ==
    IF BLess(x, y) THEN DivGo(x, y, <<0>>, 4)
    ELSE DivGo(BSub(x, y), y, <<1>>, 4)

\* the float64 nearest to the quotient res[1] * 2^e, res[2] telling whether
\* the division left a remainder: one more bit carries the remainder
RoundQuotient(res, rest, e) ==
    Round(BAdd(ShiftLeft(res[1], 1), IF res[2] = rest THEN <<>> ELSE <<1>>), e - 1)

\* a / b for b # 0.  A quotient by a power of two, or of equal significands,
\* is exact.  Otherwise the significands are shifted to fill four limbs and
\* the quotient has 60 or 61 bits
FDiv(a, b) ==
    Force2(LAMBDA x, y :
               IF x[1] = <<>> THEN Zero
               ELSE IF y[1] = Unit THEN <<x[1], x[2] - y[2] - (SignificandBits - 1)>>
               ELSE IF x[1] = y[1] THEN <<Unit, x[2] - y[2] - (SignificandBits - 1)>>
               ELSE Force(LAMBDA res : RoundQuotient(res, <<>>, x[2] - y[2] - 4 * LimbBits),
                          DivMod(ShiftLeft(x[1], 4 * LimbBits - SignificandBits),
                                 ShiftLeft(y[1], 4 * LimbBits - SignificandBits))),
           a, b)

FLess(a, b) ==
    Force2(LAMBDA x, y : IF y[1] = <<>> THEN FALSE
                         ELSE IF x[1] = <<>> THEN TRUE
                         ELSE \/ x[2] < y[2]
                              \/ x[2] = y[2] /\ BLess(x[1], y[1]),
           a, b)

FLeq(a, b) == ~FLess(b, a)

\* the quotient and the remainder of r * Base^k + (the digits q) by d: long
\* division by the one limb d, k more digits to come
RECURSIVE SmallDivGo(_, _, _, _)
SmallDivGo(d, k, q, r) ==
    IF k = 0 THEN <<Trim(q), r>>
    ELSE Force2(LAMBDA t, done : SmallDivGo(d, k - 1, <<t \div d>> \o done, t % d),
                r * Base, q)

\* the quotient and the remainder of n * 2^(5 * LimbBits) by d, for naturals
\* n and d below 2^15 with d # 0
SmallDivMod(n, d) == SmallDivGo(d, 5, <<n \div d>>, n % d)

\* float64(n) / float64(d) for integers n >= 0 and d > 0: both conversions
\* are exact, so the result is the quotient of the integers, rounded
F64(n, d) ==
    Force2(LAMBDA x, y :
               IF x < Base /\ y < Base
               THEN IF x = 0 THEN Zero
                    ELSE Force(LAMBDA res : RoundQuotient(res, 0, -(5 * LimbBits)),
                               SmallDivMod(x, y))
               ELSE FDiv(FromInt(x), FromInt(y)),
           n, d)

One == <<<<0, 0, 0, 128>>, -52>>
Half == <<<<0, 0, 0, 128>>, -53>>

\* the float64 values of the decimal literals of the program
Lit0_005 == <<<<5243, 3932, 27525, 163>>, -60>>
Lit0_015 == <<<<7864, 22282, 24903, 245>>, -59>>
Lit0_2 == <<<<6554, 13107, 26214, 204>>, -55>>
Lit0_3 == <<<<13107, 26214, 19660, 153>>, -54>>
Lit0_8 == <<<<6554, 13107, 26214, 204>>, -53>>
Lit1_7 == <<<<13107, 26214, 19660, 217>>, -52>>
Lit2 == <<<<0, 0, 0, 128>>, -51>>
Lit2_5 == <<<<0, 0, 0, 160>>, -51>>
Lit3 == <<<<0, 0, 0, 192>>, -51>>
Lit4_5 == <<<<0, 0, 0, 144>>, -50>>

Range(s) == {s[i] : i \in 1..Len(s)}

(***************************************************************************)
(* Program constants (internal/system/types.go).                           *)
(***************************************************************************)
topNProviders == 5
parallelFilterThreshold == 50
workerCount == 10

(***************************************************************************)
(* utils.Min                                                               *)
(***************************************************************************)
Min(a, b) == IF a < b THEN a ELSE b

(***************************************************************************)
(* The heap of providers.  Pointers 1..8 are mock.Providers; the others    *)
(* are further providers a caller may pass: 9 differs from 1 in ID and     *)
(* address only, 10 spells its location in lower case, 11 has no stake, no *)
(* fee and no feature, 12 lists a feature twice, 13 is another US-West     *)
(* provider, 14 lists twice a feature the mock policy does not require.    *)
(***************************************************************************)
Heap ==
    <<
    [ID |-> "1", Address |-> "provider1", Stake |-> 1000, Location |-> "US-West",
     Features |-> <<"featA", "featB", "featC">>, Fee |-> Lit3],
    [ID |-> "2", Address |-> "provider2", Stake |-> 2000, Location |-> "US-East",
     Features |-> <<"featA", "featB">>, Fee |-> Lit0_015],
    [ID |-> "3", Address |-> "provider3", Stake |-> 1500, Location |-> "EU-Central",
     Features |-> <<"featA", "featC", "featD">>, Fee |-> Lit4_5],
    [ID |-> "4", Address |-> "provider4", Stake |-> 500, Location |-> "US-West",
     Features |-> <<"featB">>, Fee |-> Lit0_005],
    [ID |-> "5", Address |-> "provider5", Stake |-> 2500, Location |-> "US-West",
     Features |-> <<"featA", "featB", "featC", "featExtra">>, Fee |-> Lit0_8],
    [ID |-> "6", Address |-> "provider6", Stake |-> 1200, Location |-> "EU-Central",
     Features |-> <<"featA", "featD", "featE">>, Fee |-> Lit1_7],
    [ID |-> "7", Address |-> "provider7", Stake |-> 800, Location |-> "US-East",
     Features |-> <<"featA", "featB", "featC", "featX">>, Fee |-> Lit2],
    [ID |-> "8", Address |-> "provider8", Stake |-> 3000, Location |-> "US-West",
     Features |-> <<"featA", "featB", "featC", "featY", "featZ">>, Fee |-> Lit2_5],
    [ID |-> "9", Address |-> "provider9", Stake |-> 1000, Location |-> "US-West",
     Features |-> <<"featA", "featB", "featC">>, Fee |-> Lit3],
    [ID |-> "10", Address |-> "provider10", Stake |-> 2000, Location |-> "us-west",
     Features |-> <<"featA", "featB">>, Fee |-> One],
    [ID |-> "11", Address |-> "provider11", Stake |-> 0, Location |-> "US-West",
     Features |-> <<>>, Fee |-> Zero],
    [ID |-> "12", Address |-> "provider12", Stake |-> 1500, Location |-> "US-West",
     Features |-> <<"featA", "featA", "featB">>, Fee |-> One],
    [ID |-> "13", Address |-> "provider13", Stake |-> 2000, Location |-> "US-West",
     Features |-> <<"featA", "featB", "featD">>, Fee |-> Lit2],
    [ID |-> "14", Address |-> "provider14", Stake |-> 1500, Location |-> "US-West",
     Features |-> <<"featA", "featB", "featC", "featC">>, Fee |-> One]
    >>

\* mock.Providers
MockProviders == <<1, 2, 3, 4, 5, 6, 7, 8>>

(***************************************************************************)
(* strings.EqualFold on the location strings of the model: equality after  *)
(* case folding.                                                           *)
(***************************************************************************)
Fold(s) ==
    CASE s = "US-West" -> "us-west"
      [] s = "US-East" -> "us-east"
      [] s = "EU-Central" -> "eu-central"
      [] s = "Antarctica" -> "antarctica"
      [] OTHER -> s

EqualFold(a, b) == Fold(a) = Fold(b)

(***************************************************************************)
(* Filters (internal/filter).  A filter is known by its Name().            *)
(***************************************************************************)
SelectIdx(ps, Keep(_)) ==
    LET RECURSIVE Go(_)
        Go(i) == IF i > Len(ps) THEN <<>>
                 ELSE (IF Keep(ps[i]) THEN <<ps[i]>> ELSE <<>>) \o Go(i + 1)
    IN  Go(1)

\* mutant of LocationFilterApply: the comparison ignores letter case
LocationFilterApplyFold(ps, policy) ==
    LET Keep(p) == EqualFold(Heap[p].Location, policy.RequiredLocation)
    IN  SelectIdx(ps, Keep)

LocationFilterApplySingle(p, policy) ==
    Heap[p].Location = policy.RequiredLocation

LocationFilterApply(ps, policy) ==
    LET Keep(p) == Heap[p].Location = policy.RequiredLocation
    IN  SelectIdx(ps, Keep)

\* required := the set of keys of the map built from policy.RequiredFeatures
RequiredSet(policy) == Range(policy.RequiredFeatures)

\* mutant of FeatureFilterApplySingle: the provider's entries that are
\* required are counted and compared with the length of the required list
FeatureFilterApplySingleCount(p, policy) ==
    Cardinality({i \in 1..Len(Heap[p].Features) :
                    Heap[p].Features[i] \in RequiredSet(policy)})
        = Len(policy.RequiredFeatures)

FeatureFilterApplySingle(p, policy) ==
    \A req \in RequiredSet(policy) :
        \E i \in 1..Len(Heap[p].Features) : Heap[p].Features[i] = req

FeatureFilterApply(ps, policy) ==
    LET Keep(p) == \A req \in RequiredSet(policy) :
                       \E i \in 1..Len(Heap[p].Features) : Heap[p].Features[i] = req
    IN  SelectIdx(ps, Keep)

StakeFilterApplySingle(p, policy) ==
    Heap[p].Stake >= policy.MinStake

\* mutant of StakeFilterApply: the minimum stake itself is rejected
StakeFilterApplyAbove(ps, pol) ==
    LET Keep(p) == Heap[p].Stake > pol.MinStake
    IN  SelectIdx(ps, Keep)

StakeFilterApply(ps, policy) ==
    LET Keep(p) == Heap[p].Stake >= policy.MinStake
    IN  SelectIdx(ps, Keep)

\* Dynamic dispatch of Filter.ApplySingle and Filter.Apply on the filter's type.
ApplySingle(f, p, policy) ==
    CASE f = "LocationFilter" -> LocationFilterApplySingle(p, policy)
      [] f = "FeatureFilter" -> FeatureFilterApplySingle(p, policy)
      [] f = "StakeFilter" -> StakeFilterApplySingle(p, policy)

Apply(f, ps, policy) ==
    CASE f = "LocationFilter" -> LocationFilterApply(ps, policy)
      [] f = "FeatureFilter" -> FeatureFilterApply(ps, policy)
      [] f = "StakeFilter" -> StakeFilterApply(ps, policy)

(***************************************************************************)
(* utils.ComputeMaxStake, utils.ComputeNormalizedFees                      *)
(***************************************************************************)
\* mutant of ComputeMaxStake: the comparison is reversed, so the running
\* maximum never leaves 0
ComputeMaxStakeReversed(ps) ==
    LET RECURSIVE Go(_, _)
        Go(i, maxStake) ==
            IF i > Len(ps) THEN maxStake
            ELSE Go(i + 1, IF Heap[ps[i]].Stake < maxStake
                           THEN Heap[ps[i]].Stake ELSE maxStake)
    IN  Go(1, 0)

ComputeMaxStake(ps) ==
    LET RECURSIVE Go(_, _)
        Go(i, maxStake) ==
            IF i > Len(ps) THEN maxStake
            ELSE Go(i + 1, IF Heap[ps[i]].Stake > maxStake
                           THEN Heap[ps[i]].Stake ELSE maxStake)
    IN  Go(1, 0)

MaxFee(ps) ==
    LET RECURSIVE Go(_, _)
        Go(i, maxFee) ==
            IF i > Len(ps) THEN maxFee
            ELSE Go(i + 1, IF FLess(maxFee, Heap[ps[i]].Fee)
                           THEN Heap[ps[i]].Fee ELSE maxFee)
        m == Go(1, Zero)
    IN  IF m = Zero THEN One ELSE m

\* normalized[p.ID] = p.Fee / maxFee; a later provider with the same ID
\* overwrites an earlier one.
ComputeNormalizedFees(ps) ==
    LET maxFee == MaxFee(ps)
        ids == {Heap[ps[i]].ID : i \in 1..Len(ps)}
        Last(id) == CHOOSE i \in 1..Len(ps) :
                        /\ Heap[ps[i]].ID = id
                        /\ \A j \in (i + 1)..Len(ps) : Heap[ps[j]].ID # id
    IN  [id \in ids |-> FDiv(Heap[ps[Last(id)]].Fee, maxFee)]

(***************************************************************************)
(* Scorers (internal/score).  A scorer is known by its Name().             *)
(***************************************************************************)
\* mutant of StakeScore: the operands of the division are swapped
StakeScoreSwapped(p, pol, c) ==
    IF c.MaxStake = 0 \/ Heap[p].Stake = 0 THEN Zero
    ELSE F64(c.MaxStake, Heap[p].Stake)

StakeScore(p, policy, ctx) ==
    IF ctx.MaxStake = 0 THEN Zero
    ELSE F64(Heap[p].Stake, ctx.MaxStake)

FeatureScore(p, policy, ctx) ==
    LET feats == Heap[p].Features
        extra == Cardinality({i \in 1..Len(feats) : feats[i] \notin RequiredSet(policy)})
    IN  IF Len(feats) = 0 THEN Zero ELSE F64(extra, Len(feats))

\* mutant of LocationScore: the two return values are exchanged
LocationScoreSwapped(p, policy, ctx) ==
    IF EqualFold(Heap[p].Location, policy.RequiredLocation) THEN Half ELSE One

LocationScore(p, policy, ctx) ==
    IF EqualFold(Heap[p].Location, policy.RequiredLocation) THEN One ELSE Half

\* mutant of FeeScore: the normalized fee is returned as it is, not
\* subtracted from 1
FeeScoreRaw(p, policy, ctx) ==
    IF Heap[p].ID \in DOMAIN ctx.NormalizedFees
    THEN ctx.NormalizedFees[Heap[p].ID]
    ELSE Zero

FeeScore(p, policy, ctx) ==
    IF Heap[p].ID \in DOMAIN ctx.NormalizedFees
    THEN FSub(One, ctx.NormalizedFees[Heap[p].ID])
    ELSE Zero

\* Dynamic dispatch of Scorer.Score on the scorer's type.
Score(s, p, policy, ctx) ==
    CASE s = "StakeScore" -> StakeScore(p, policy, ctx)
      [] s = "FeatureScore" -> FeatureScore(p, policy, ctx)
      [] s = "LocationScore" -> LocationScore(p, policy, ctx)
      [] s = "FeeScore" -> FeeScore(p, policy, ctx)

(***************************************************************************)
(* A range over a Go map visits every key once, in an order that is not    *)
(* specified: the orders over the key set S.                               *)
(***************************************************************************)
IterationOrders(S) ==
    {order \in [1..Cardinality(S) -> S] :
        \A i, j \in 1..Cardinality(S) : order[i] = order[j] => i = j}

(***************************************************************************)
(* utils.ValidateWeights / checkWeightSum: TRUE when an error is returned. *)
(* order is the order in which the range over the weights visits them.     *)
(***************************************************************************)
\* total += weight, for the keys of f in the order given
SumOver(order, f) ==
    LET RECURSIVE Go(_, _)
        Go(i, total) ==
            IF i > Len(order) THEN total
            ELSE Force(LAMBDA t : Go(i + 1, t), FAdd(total, f[order[i]]))
    IN  Go(1, Zero)

checkWeightSum(order, weights) == SumOver(order, weights) # One

ValidateWeights(order, weights) ==
    IF Cardinality(DOMAIN weights) = 0 THEN FALSE
    ELSE checkWeightSum(order, weights)


(***************************************************************************)
(* rankWorker's computation for one provider: the raw score of every       *)
(* scorer, the components map and the final score.  order is the order in  *)
(* which the range over components visits the components that add to the   *)
(* weighted sum.                                                           *)
(***************************************************************************)
\* components[scorer.Name()] = s, for every scorer of ps.scorers
Components(scorers, p, policy, ctx) ==
    Eager([name \in Range(scorers) |-> Score(name, p, policy, ctx)])

\* totalScore += s, once for every scorer of ps.scorers; s is the value
\* stored in components[scorer.Name()]
TotalScore(scorers, components) ==
    LET RECURSIVE Go(_, _)
        Go(i, total) ==
            IF i > Len(scorers) THEN total
            ELSE Force(LAMBDA t : Go(i + 1, t), FAdd(total, components[scorers[i]]))
    IN  Go(1, Zero)

\* mutant of WeightedTerms: a component the weights do not name is taken
\* with weight 1
WeightedTermsDefault(components, weights) ==
    Eager([name \in DOMAIN components |->
              IF name \in DOMAIN weights
              THEN FMul(components[name], weights[name])
              ELSE components[name]])

\* scoreValue * weight, for every component whose name is a key of the
\* weights; a component the weights do not name adds nothing to the sum
WeightedTerms(components, weights) ==
    Eager([name \in DOMAIN components \cap DOMAIN weights |->
              FMul(components[name], weights[name])])

\* weightedSum += scoreValue * weight, in the order given
WeightedSum(order, terms) ==
    LET RECURSIVE Go(_, _)
        Go(i, weightedSum) ==
            IF i > Len(order) THEN weightedSum
            ELSE Force(LAMBDA t : Go(i + 1, t), FAdd(weightedSum, terms[order[i]]))
    IN  Go(1, Zero)

\* mutant of FinalScore: the total is not divided by the number of scorers
FinalScoreTotal(order, terms, totalScore, nScorers, weights) ==
    IF Cardinality(DOMAIN weights) > 0
    THEN WeightedSum(order, terms)
    ELSE totalScore

FinalScore(order, terms, totalScore, nScorers, weights) ==
    IF Cardinality(DOMAIN weights) > 0
    THEN WeightedSum(order, terms)
    ELSE IF nScorers > 0
         THEN FDiv(totalScore, FromInt(nScorers))
         ELSE Zero

\* mutant of PairingScore: weights that name none of the components are
\* treated as no weights, the final score is the average
PairingScoreFallback(order, p, components, terms, totalScore, nScorers, weights) ==
    [Provider |-> p,
     Score |-> FinalScore(order, terms, totalScore, nScorers,
                          IF DOMAIN weights \cap DOMAIN components = {}
                          THEN <<>>
                          ELSE weights),
     Components |-> components]

\* &pairing.PairingScore{Provider: p, Score: finalScore, Components: components}
PairingScore(order, p, components, terms, totalScore, nScorers, weights) ==
    [Provider |-> p,
     Score |-> FinalScore(order, terms, totalScore, nScorers, weights),
     Components |-> components]

\* the orders in which the range over components can add to the weighted
\* sum; without weights the components are not ranged over
RangeOrders(terms, weights) ==
    IF Cardinality(DOMAIN weights) > 0
    THEN IterationOrders(DOMAIN terms)
    ELSE {<<>>}

\* the records one iteration of rankWorker can send for provider p: one for
\* every order of the range over components
PairingScores(scorers, p, policy, ctx) ==
    Force(LAMBDA components :
              Force(LAMBDA terms :
                        {PairingScore(order, p, components, terms,
                                      TotalScore(scorers, components),
                                      Len(scorers), policy.Weights) :
                            order \in RangeOrders(terms, policy.Weights)},
                    WeightedTerms(components, policy.Weights)),
          Components(scorers, p, policy, ctx))

(***************************************************************************)
(* sort.Slice(scored, less) with less(i, j) = scored[i].Score >            *)
(* scored[j].Score.  On a slice of at most 12 elements sort.Slice runs an  *)
(* insertion sort: every element moves left past the elements that are     *)
(* less than it.                                                           *)
(***************************************************************************)
\* mutant of Less: the comparison is reversed, lower score first
LessAscending(a, b) == FLess(a.Score, b.Score)

Less(a, b) == FLess(b.Score, a.Score)

InsertSorted(sorted, x) ==
    LET n == Len(sorted)
        \* x stops behind the last element it is not less than
        stop == IF \E j \in 1..n : ~Less(x, sorted[j])
                THEN CHOOSE j \in 1..n :
                         /\ ~Less(x, sorted[j])
                         /\ \A k \in (j + 1)..n : Less(x, sorted[k])
                ELSE 0
    IN  SubSeq(sorted, 1, stop) \o <<x>> \o SubSeq(sorted, stop + 1, n)

\* mutant of SortSlice: the slice is left in arrival order
SortSliceNone(sl) == sl

SortSlice(sl) ==
    LET RECURSIVE Go(_, _)
        Go(i, sorted) ==
            IF i > Len(sl) THEN sorted
            ELSE Go(i + 1, InsertSorted(sorted, sl[i]))
    IN  Go(1, <<>>)

\* mutant of TopProviders: every record is selected, without the cut to topN
TopProvidersAll(sl) == [i \in 1..Len(sl) |-> sl[i].Provider]

\* Step 4 of GetPairingList: the providers of the first finalCount records
TopProviders(sl) ==
    LET finalCount == Min(topNProviders, Len(sl))
    IN  [i \in 1..finalCount |-> sl[i].Provider]

(***************************************************************************)
(* The sequential path of FilterProviders: every filter's Apply in turn.   *)
(***************************************************************************)
SequentialFilter(filters, ps, policy) ==
    LET RECURSIVE Go(_, _)
        Go(i, filtered) ==
            IF i > Len(filters) THEN filtered
            ELSE Go(i + 1, Apply(filters[i], filtered, policy))
    IN  Go(1, ps)

\* mutant of PassesAll: pass is overwritten by every filter, so only the
\* last filter decides
PassesLast(fs, p, pol) ==
    Len(fs) = 0 \/ ApplySingle(fs[Len(fs)], p, pol)

\* filterWorker's loop over ps.filters for one provider
PassesAll(fs, p, pol) ==
    \A i \in 1..Len(fs) : ApplySingle(fs[i], p, pol)


(***************************************************************************)
(* State.                                                                  *)
(*   entry, providers, policy, strictMode, filters, scorers: the request   *)
(*     (who calls GetPairingList, its arguments, the pairingSystem fields) *)
(*   pc: the position of the goroutine that runs GetPairingList, or        *)
(*     FilterProviders or RankProviders when entry names one of them       *)
(*   filterPool, rankPool: the worker pool of parallelFilterProviders and  *)
(*     of RankProviders: the tasks and results channels, the number of     *)
(*     workers waiting on tasks (idle), the providers held by workers that *)
(*     have taken a task and not yet finished it (busy, a bag), the number *)
(*     of workers that returned (exited), the number of tasks fed (fed)    *)
(*   filtered: the slice FilterProviders builds and returns, the argument  *)
(*     of RankProviders                                                    *)
(*   ctx: the PreScoreContext of RankProviders                             *)
(*   scores: the slice RankProviders builds and returns                    *)
(*   scored: that slice after sort.Slice                                   *)
(*   topProviders, err: what GetPairingList returns                        *)
(***************************************************************************)
VARIABLES entry, providers, policy, strictMode, filters, scorers,
          pc, filterPool, rankPool, filtered, ctx, scores, scored,
          topProviders, err

inputs == <<entry, providers, policy, strictMode, filters, scorers>>
vars == <<entry, providers, policy, strictMode, filters, scorers,
          pc, filterPool, rankPool, filtered, ctx, scores, scored,
          topProviders, err>>

\* a pool before its stage starts: no channel, no worker
NoPool ==
    [started |-> FALSE, capacity |-> 0, tasks |-> <<>>, tasksClosed |-> FALSE,
     fed |-> 0, idle |-> 0, busy |-> EmptyBag, exited |-> 0,
     results |-> <<>>, resultsClosed |-> FALSE]

\* mutant of NewPool: the channels have the capacity of the worker count, not
\* of the batch
NewPoolOfWorkers(n) ==
    [started |-> TRUE, capacity |-> workerCount, tasks |-> <<>>, tasksClosed |-> FALSE,
     fed |-> 0, idle |-> workerCount, busy |-> EmptyBag, exited |-> 0,
     results |-> <<>>, resultsClosed |-> FALSE]

\* make(chan, n) twice and workerCount times wg.Add(1); go worker(...)
NewPool(n) ==
    [started |-> TRUE, capacity |-> n, tasks |-> <<>>, tasksClosed |-> FALSE,
     fed |-> 0, idle |-> workerCount, busy |-> EmptyBag, exited |-> 0,
     results |-> <<>>, resultsClosed |-> FALSE]

NoCtx == [MaxStake |-> 0, NormalizedFees |-> <<>>]

(***************************************************************************)
(* The pool steps shared by the two stages.                                *)
(***************************************************************************)
\* tasks <- p, for the next provider of the list ps
Feed(pool, ps) ==
    [pool EXCEPT !.tasks = Append(@, ps[pool.fed + 1]), !.fed = @ + 1]

\* for p := range tasks: a waiting worker receives the head of the queue
Recv(pool) ==
    [pool EXCEPT !.tasks = Tail(@), !.idle = @ - 1,
                 !.busy = @ (+) SetToBag({Head(pool.tasks)})]

\* mutant of Exit: the worker returns without wg.Done
ExitNoDone(pool) ==
    [pool EXCEPT !.idle = @ - 1]

\* range tasks ends on the closed, drained channel: the worker returns (wg.Done)
Exit(pool) ==
    [pool EXCEPT !.idle = @ - 1, !.exited = @ + 1]

\* the worker holding p ends its iteration, sending the items of out on results
Publish(pool, p, out) ==
    [pool EXCEPT !.busy = @ (-) SetToBag({p}), !.idle = @ + 1,
                 !.results = @ \o out]

(***************************************************************************)
(* main (cmd/main.go)                                                      *)
(***************************************************************************)
MainRejects ==
    /\ pc = "main"
    /\ \E order \in IterationOrders(DOMAIN policy.Weights) :
           ValidateWeights(order, policy.Weights)
    /\ pc' = "rejected"
    /\ UNCHANGED <<inputs, filterPool, rankPool, filtered, ctx, scores, scored,
                   topProviders, err>>

MainCalls ==
    /\ pc = "main"
    /\ \E order \in IterationOrders(DOMAIN policy.Weights) :
           ~ValidateWeights(order, policy.Weights)
    /\ pc' = "GetPairingList"
    /\ UNCHANGED <<inputs, filterPool, rankPool, filtered, ctx, scores, scored,
                   topProviders, err>>

(***************************************************************************)
(* FilterProviders                                                         *)
(***************************************************************************)
\* FilterProviders is entered: GetPairingList calls it, or a caller does
FilterCalled == pc \in {"GetPairingList", "FilterProviders"}

\* where FilterProviders returns to
AfterFilter == IF entry = "FilterProviders" THEN "returned" ELSE "filtered"

FilterNone ==
    /\ FilterCalled
    /\ Len(providers) = 0
    /\ filtered' = <<>>
    /\ pc' = AfterFilter
    /\ UNCHANGED <<inputs, filterPool, rankPool, ctx, scores, scored,
                   topProviders, err>>

FilterSequential ==
    /\ FilterCalled
    /\ Len(providers) # 0
    /\ Len(providers) <= parallelFilterThreshold
    /\ filtered' = SequentialFilter(filters, providers, policy)
    /\ pc' = AfterFilter
    /\ UNCHANGED <<inputs, filterPool, rankPool, ctx, scores, scored,
                   topProviders, err>>

\* mutant of FilterParallel: a list of exactly parallelFilterThreshold
\* providers goes to the worker pool too
FilterParallelAtThreshold ==
    /\ FilterCalled
    /\ Len(providers) # 0
    /\ Len(providers) >= parallelFilterThreshold
    /\ filterPool' = NewPool(Len(providers))
    /\ pc' = "filterFeed"
    /\ UNCHANGED <<inputs, rankPool, filtered, ctx, scores, scored,
                   topProviders, err>>

\* parallelFilterProviders: the channels and the workers
FilterParallel ==
    /\ FilterCalled
    /\ Len(providers) # 0
    /\ ~(Len(providers) <= parallelFilterThreshold)
    /\ filterPool' = NewPool(Len(providers))
    /\ pc' = "filterFeed"
    /\ UNCHANGED <<inputs, rankPool, filtered, ctx, scores, scored,
                   topProviders, err>>

FilterFeed ==
    /\ pc = "filterFeed"
    /\ filterPool.fed < Len(providers)
    /\ Len(filterPool.tasks) < filterPool.capacity
    /\ filterPool' = Feed(filterPool, providers)
    /\ UNCHANGED <<inputs, pc, rankPool, filtered, ctx, scores, scored,
                   topProviders, err>>

\* close(tasks); go func() { wg.Wait(); close(results) }(); filtered := make(...)
FilterCloseTasks ==
    /\ pc = "filterFeed"
    /\ filterPool.fed = Len(providers)
    /\ filterPool' = [filterPool EXCEPT !.tasksClosed = TRUE]
    /\ filtered' = <<>>
    /\ pc' = "filterCollect"
    /\ UNCHANGED <<inputs, rankPool, ctx, scores, scored, topProviders, err>>

filterWorkerRecv ==
    /\ filterPool.started
    /\ filterPool.idle > 0
    /\ filterPool.tasks # <<>>
    /\ filterPool' = Recv(filterPool)
    /\ UNCHANGED <<inputs, pc, rankPool, filtered, ctx, scores, scored,
                   topProviders, err>>

\* one iteration of filterWorker: the loop over ps.filters, then results <- p
filterWorker ==
    /\ \E p \in BagToSet(filterPool.busy) :
           /\ PassesAll(filters, p, policy)
                  => Len(filterPool.results) < filterPool.capacity
           /\ filterPool' = Publish(filterPool, p,
                  IF PassesAll(filters, p, policy) THEN <<p>> ELSE <<>>)
    /\ UNCHANGED <<inputs, pc, rankPool, filtered, ctx, scores, scored,
                   topProviders, err>>

filterWorkerExit ==
    /\ filterPool.started
    /\ filterPool.idle > 0
    /\ filterPool.tasks = <<>>
    /\ filterPool.tasksClosed
    /\ filterPool' = Exit(filterPool)
    /\ UNCHANGED <<inputs, pc, rankPool, filtered, ctx, scores, scored,
                   topProviders, err>>

\* the closer goroutine: wg.Wait(); close(results)
FilterCloseResults ==
    /\ pc = "filterCollect"
    /\ filterPool.exited = workerCount
    /\ ~filterPool.resultsClosed
    /\ filterPool' = [filterPool EXCEPT !.resultsClosed = TRUE]
    /\ UNCHANGED <<inputs, pc, rankPool, filtered, ctx, scores, scored,
                   topProviders, err>>

\* mutant of FilterCollect: a provider already collected is not appended again
FilterCollectOnce ==
    /\ pc = "filterCollect"
    /\ filterPool.results # <<>>
    /\ filtered' = IF Head(filterPool.results) \in Range(filtered) THEN filtered
                   ELSE Append(filtered, Head(filterPool.results))
    /\ filterPool' = [filterPool EXCEPT !.results = Tail(@)]
    /\ UNCHANGED <<inputs, pc, rankPool, ctx, scores, scored, topProviders, err>>

\* for p := range results { filtered = append(filtered, p) }
FilterCollect ==
    /\ pc = "filterCollect"
    /\ filterPool.results # <<>>
    /\ filtered' = Append(filtered, Head(filterPool.results))
    /\ filterPool' = [filterPool EXCEPT !.results = Tail(@)]
    /\ UNCHANGED <<inputs, pc, rankPool, ctx, scores, scored, topProviders, err>>

\* mutant of FilterReturn: the collecting loop ends on the first empty read,
\* whether or not the channel is closed
FilterReturnOnEmpty ==
    /\ pc = "filterCollect"
    /\ filterPool.results = <<>>
    /\ pc' = AfterFilter
    /\ UNCHANGED <<inputs, filterPool, rankPool, filtered, ctx, scores, scored,
                   topProviders, err>>

FilterReturn ==
    /\ pc = "filterCollect"
    /\ filterPool.results = <<>>
    /\ filterPool.resultsClosed
    /\ pc' = AfterFilter
    /\ UNCHANGED <<inputs, filterPool, rankPool, filtered, ctx, scores, scored,
                   topProviders, err>>


(***************************************************************************)
(* GetPairingList, after FilterProviders has returned                      *)
(***************************************************************************)
\* mutant of NoMatchStrict: the strict-mode test is missing, the empty list
\* is returned without an error
NoMatchStrictSilent ==
    /\ pc = "filtered"
    /\ Len(filtered) = 0
    /\ strictMode
    /\ topProviders' = <<>>
    /\ err' = FALSE
    /\ pc' = "done"
    /\ UNCHANGED <<inputs, filterPool, rankPool, filtered, ctx, scores, scored>>

\* strict mode: return nil, fmt.Errorf(...)
NoMatchStrict ==
    /\ pc = "filtered"
    /\ Len(filtered) = 0
    /\ strictMode
    /\ topProviders' = <<>>
    /\ err' = TRUE
    /\ pc' = "done"
    /\ UNCHANGED <<inputs, filterPool, rankPool, filtered, ctx, scores, scored>>

\* mutant of NoMatchLenient: the test for the empty list is missing in
\* lenient mode, the request goes on to the score stage
NoMatchLenientRanks ==
    /\ pc = "filtered"
    /\ Len(filtered) = 0
    /\ ~strictMode
    /\ ctx' = [MaxStake |-> 1, NormalizedFees |-> <<>>]
    /\ rankPool' = NewPool(0)
    /\ pc' = "rankFeed"
    /\ UNCHANGED <<inputs, filterPool, filtered, scores, scored, topProviders, err>>

\* return []*pairing.Provider{}, nil
NoMatchLenient ==
    /\ pc = "filtered"
    /\ Len(filtered) = 0
    /\ ~strictMode
    /\ topProviders' = <<>>
    /\ err' = FALSE
    /\ pc' = "done"
    /\ UNCHANGED <<inputs, filterPool, rankPool, filtered, ctx, scores, scored>>

(***************************************************************************)
(* RankProviders                                                           *)
(***************************************************************************)
\* mutant of PreScoreContext: the maximum stake is stored as computed, also
\* when it is 0
PreScoreContextUnguarded(ps) ==
    [MaxStake |-> ComputeMaxStake(ps),
     NormalizedFees |-> ComputeNormalizedFees(ps)]

\* the PreScoreContext of the providers ps
PreScoreContext(ps) ==
    LET currentMaxStake == ComputeMaxStake(ps)
    IN  [MaxStake |-> IF currentMaxStake = 0 THEN 1 ELSE currentMaxStake,
         NormalizedFees |-> ComputeNormalizedFees(ps)]

\* RankProviders is entered: GetPairingList calls it on the filtered list
\* when that list is not empty, or a caller does on the list it chooses
RankCalled == pc \in {"filtered", "RankProviders"}

\* where RankProviders returns to
AfterRank == IF entry = "RankProviders" THEN "returned" ELSE "ranked"

\* mutant of RankNone: the test for the empty list is missing, the context is
\* built and the workers are started
RankNoneStarts ==
    /\ pc = "RankProviders"
    /\ Len(filtered) = 0
    /\ ctx' = [MaxStake |-> 1, NormalizedFees |-> <<>>]
    /\ rankPool' = NewPool(0)
    /\ pc' = "rankFeed"
    /\ UNCHANGED <<inputs, filterPool, filtered, scores, scored, topProviders, err>>

\* if len(providers) == 0: return []*pairing.PairingScore{}, nil
RankNone ==
    /\ pc = "RankProviders"
    /\ Len(filtered) = 0
    /\ scores' = <<>>
    /\ pc' = AfterRank
    /\ UNCHANGED <<inputs, filterPool, rankPool, filtered, ctx, scored,
                   topProviders, err>>

\* mutant of RankStart: a list of at most parallelFilterThreshold providers
\* is scored in the calling goroutine, without a worker
RankStartSequential ==
    /\ RankCalled
    /\ Len(filtered) # 0
    /\ ctx' = PreScoreContext(filtered)
    /\ IF Len(filtered) <= parallelFilterThreshold
       THEN /\ scores' = [i \in 1..Len(filtered) |->
                             CHOOSE score \in PairingScores(scorers, filtered[i], policy,
                                                             PreScoreContext(filtered)) : TRUE]
            /\ pc' = AfterRank
            /\ UNCHANGED rankPool
       ELSE /\ rankPool' = NewPool(Len(filtered))
            /\ pc' = "rankFeed"
            /\ UNCHANGED scores
    /\ UNCHANGED <<inputs, filterPool, filtered, scored, topProviders, err>>

\* the context, the channels and the workers
RankStart ==
    /\ RankCalled
    /\ Len(filtered) # 0
    /\ ctx' = PreScoreContext(filtered)
    /\ rankPool' = NewPool(Len(filtered))
    /\ pc' = "rankFeed"
    /\ UNCHANGED <<inputs, filterPool, filtered, scores, scored, topProviders, err>>

\* mutant of RankFeed: the context is rebuilt from the providers fed so far
RankFeedRebuilds ==
    /\ pc = "rankFeed"
    /\ rankPool.fed < Len(filtered)
    /\ Len(rankPool.tasks) < rankPool.capacity
    /\ rankPool' = Feed(rankPool, filtered)
    /\ ctx' = PreScoreContext(SubSeq(filtered, 1, rankPool.fed + 1))
    /\ UNCHANGED <<inputs, pc, filterPool, filtered, scores, scored, topProviders, err>>

RankFeed ==
    /\ pc = "rankFeed"
    /\ rankPool.fed < Len(filtered)
    /\ Len(rankPool.tasks) < rankPool.capacity
    /\ rankPool' = Feed(rankPool, filtered)
    /\ UNCHANGED <<inputs, pc, filterPool, filtered, ctx, scores, scored,
                   topProviders, err>>

\* close(tasks); go func() { wg.Wait(); close(results) }(); scores := make(...)
RankCloseTasks ==
    /\ pc = "rankFeed"
    /\ rankPool.fed = Len(filtered)
    /\ rankPool' = [rankPool EXCEPT !.tasksClosed = TRUE]
    /\ scores' = <<>>
    /\ pc' = "rankCollect"
    /\ UNCHANGED <<inputs, filterPool, filtered, ctx, scored, topProviders, err>>

\* mutant of rankWorkerRecv: the worker reads the head of the task queue and
\* leaves it there
rankWorkerRecvPeek ==
    /\ rankPool.started
    /\ rankPool.idle > 0
    /\ rankPool.tasks # <<>>
    /\ rankPool' = [rankPool EXCEPT !.idle = @ - 1,
                       !.busy = @ (+) SetToBag({Head(rankPool.tasks)})]
    /\ UNCHANGED <<inputs, pc, filterPool, filtered, ctx, scores, scored,
                   topProviders, err>>

rankWorkerRecv ==
    /\ rankPool.started
    /\ rankPool.idle > 0
    /\ rankPool.tasks # <<>>
    /\ rankPool' = Recv(rankPool)
    /\ UNCHANGED <<inputs, pc, filterPool, filtered, ctx, scores, scored,
                   topProviders, err>>

\* one iteration of rankWorker: the scorers, the final score, results <- &PairingScore
rankWorker ==
    /\ \E p \in BagToSet(rankPool.busy) :
           /\ Len(rankPool.results) < rankPool.capacity
           /\ \E score \in PairingScores(scorers, p, policy, ctx) :
                  rankPool' = Publish(rankPool, p, <<score>>)
    /\ UNCHANGED <<inputs, pc, filterPool, filtered, ctx, scores, scored,
                   topProviders, err>>

rankWorkerExit ==
    /\ rankPool.started
    /\ rankPool.idle > 0
    /\ rankPool.tasks = <<>>
    /\ rankPool.tasksClosed
    /\ rankPool' = Exit(rankPool)
    /\ UNCHANGED <<inputs, pc, filterPool, filtered, ctx, scores, scored,
                   topProviders, err>>

\* mutant of RankCloseResults: the closer goroutine does not wait for the
\* workers
RankCloseResultsEarly ==
    /\ pc = "rankCollect"
    /\ ~rankPool.resultsClosed
    /\ rankPool' = [rankPool EXCEPT !.resultsClosed = TRUE]
    /\ UNCHANGED <<inputs, pc, filterPool, filtered, ctx, scores, scored,
                   topProviders, err>>

\* the closer goroutine: wg.Wait(); close(results)
RankCloseResults ==
    /\ pc = "rankCollect"
    /\ rankPool.exited = workerCount
    /\ ~rankPool.resultsClosed
    /\ rankPool' = [rankPool EXCEPT !.resultsClosed = TRUE]
    /\ UNCHANGED <<inputs, pc, filterPool, filtered, ctx, scores, scored,
                   topProviders, err>>

\* for score := range results { scores = append(scores, score) }
RankCollect ==
    /\ pc = "rankCollect"
    /\ rankPool.results # <<>>
    /\ scores' = Append(scores, Head(rankPool.results))
    /\ rankPool' = [rankPool EXCEPT !.results = Tail(@)]
    /\ UNCHANGED <<inputs, pc, filterPool, filtered, ctx, scored, topProviders, err>>

RankReturn ==
    /\ pc = "rankCollect"
    /\ rankPool.results = <<>>
    /\ rankPool.resultsClosed
    /\ pc' = AfterRank
    /\ UNCHANGED <<inputs, filterPool, rankPool, filtered, ctx, scores, scored,
                   topProviders, err>>

(***************************************************************************)
(* GetPairingList, steps 3 and 4: sort, select the top N, return           *)
(***************************************************************************)
SortAndSelect ==
    /\ pc = "ranked"
    /\ scored' = SortSlice(scores)
    /\ topProviders' = TopProviders(SortSlice(scores))
    /\ err' = FALSE
    /\ pc' = "done"
    /\ UNCHANGED <<inputs, filterPool, rankPool, filtered, ctx, scores>>


(***************************************************************************)
(* Requests.                                                               *)
(***************************************************************************)
\* config.Init
ConfigFilters == <<"LocationFilter", "FeatureFilter", "StakeFilter">>
ConfigScorers == <<"StakeScore", "FeatureScore", "LocationScore", "FeeScore">>

\* mock.ConsumerPolicy.Weights
MockWeights ==
    [name \in {"StakeScore", "FeatureScore", "LocationScore"} |->
        CASE name = "StakeScore" -> Half
          [] name = "FeatureScore" -> Lit0_3
          [] name = "LocationScore" -> Lit0_2]

\* no weights: a nil or empty map
NoWeights == <<>>

\* weights that name one scorer only, and sum to 1
FeeOnlyWeights == [name \in {"FeeScore"} |-> One]

\* weights that ValidateWeights rejects: they sum to 0.7
InvalidWeights ==
    [name \in {"StakeScore", "FeeScore"} |->
        IF name = "StakeScore" THEN Half ELSE Lit0_2]

\* weights whose keys name no scorer
UnnamedWeights ==
    [name \in {"Stake", "Feature", "Location"} |->
        CASE name = "Stake" -> Half
          [] name = "Feature" -> Lit0_3
          [] name = "Location" -> Lit0_2]

\* weights 0.7, 0.2 and 0.1: their float64 sum is 1.0 or 0.9999999999999999
\* with the order in which the map is iterated
UnevenWeights ==
    [name \in {"StakeScore", "FeatureScore", "LocationScore"} |->
        CASE name = "StakeScore" -> <<<<26214, 19660, 6553, 179>>, -53>>
          [] name = "FeatureScore" -> Lit0_2
          [] name = "LocationScore" -> <<<<6554, 13107, 26214, 204>>, -56>>]

WeightMaps ==
    {MockWeights, NoWeights, FeeOnlyWeights, InvalidWeights, UnnamedWeights, UnevenWeights}

\* mock.ConsumerPolicy, with the weights w
MockPolicy(w) ==
    [RequiredLocation |-> "US-West", RequiredFeatures |-> <<"featA", "featB">>,
     MinStake |-> 1000, Weights |-> w]

\* a policy every US-West provider satisfies
OpenPolicy(w) ==
    [RequiredLocation |-> "US-West", RequiredFeatures |-> <<>>,
     MinStake |-> 0, Weights |-> w]

\* a policy no provider satisfies
NoMatchPolicy(w) ==
    [RequiredLocation |-> "Antarctica", RequiredFeatures |-> <<"featA", "featB">>,
     MinStake |-> 1000, Weights |-> w]

\* the mock policy with a required feature listed twice
DupPolicy(w) ==
    [RequiredLocation |-> "US-West", RequiredFeatures |-> <<"featA", "featA", "featB">>,
     MinStake |-> 1000, Weights |-> w]

\* the longest provider list drawn from SmallPool or from FeaturePool
MaxLen == 2
\* how many providers follow the padding of a list longer than the threshold
MaxTail == 2

SmallPool == {1, 9, 10, 11}
FeaturePool == {4, 12, 14}
TailPool == {5, 8}

RECURSIVE SeqsUpTo(_, _)
SeqsUpTo(S, n) ==
    IF n = 0 THEN {<<>>}
    ELSE LET shorter == SeqsUpTo(S, n - 1)
         IN  shorter \cup {Append(q, x) : q \in {r \in shorter : Len(r) = n - 1}, x \in S}

\* parallelFilterThreshold times the same pointer
Padding(p) == [i \in 1..parallelFilterThreshold |-> p]

\* six US-West providers: 5 and 8 are passed twice, 1 and 9 have equal scores
WideList == <<5, 8, 1, 5, 8, 9>>

Request(e, ps, pol, strict, fs, ss) ==
    [entry |-> e, providers |-> ps, policy |-> pol, strictMode |-> strict,
     filters |-> fs, scorers |-> ss]

\* cmd/main.go: the mock providers, a policy, strict mode, config.Init
MainRequests ==
    {Request("main", MockProviders, pol, TRUE, ConfigFilters, ConfigScorers) :
        pol \in {MockPolicy(w) : w \in WeightMaps} \cup {NoMatchPolicy(MockWeights)}}

\* GetPairingList called on the mock providers
MockRequests ==
    {Request("api", MockProviders, pol, strict, ConfigFilters, ConfigScorers) :
        pol \in {MockPolicy(w) : w \in WeightMaps} \cup {NoMatchPolicy(NoWeights)},
        strict \in BOOLEAN}

\* the filters and the scorers a pairingSystem is built with
NoFilters == <<>>
NoScorers == <<>>
TwoScorers == <<"StakeScore", "FeeScore">>

Setups ==
    {<<ConfigFilters, ConfigScorers>>, <<NoFilters, ConfigScorers>>,
     <<ConfigFilters, NoScorers>>, <<ConfigFilters, TwoScorers>>}

\* GetPairingList called on short lists, with and without filters and
\* scorers: in strict mode, and without it when built by config.Init
SmallRequests ==
    {Request("api", ps, pol, TRUE, setup[1], setup[2]) :
        ps \in SeqsUpTo(SmallPool, MaxLen),
        pol \in {MockPolicy(MockWeights), OpenPolicy(NoWeights), OpenPolicy(FeeOnlyWeights)},
        setup \in Setups}
    \cup
    {Request("api", ps, pol, FALSE, ConfigFilters, ConfigScorers) :
        ps \in SeqsUpTo(SmallPool, MaxLen),
        pol \in {MockPolicy(MockWeights), OpenPolicy(NoWeights), OpenPolicy(FeeOnlyWeights)}}

\* GetPairingList called on more providers than it returns
WideRequests ==
    {Request("api", WideList, OpenPolicy(NoWeights), TRUE, ConfigFilters, ConfigScorers)}

\* GetPairingList called on more providers than the threshold of the worker
\* pool: the padding, which the location filter rejects, then the tail
LongRequests ==
    {Request("api", Padding(3) \o tail, MockPolicy(MockWeights), TRUE,
             ConfigFilters, ConfigScorers) :
        tail \in {q \in SeqsUpTo(TailPool, MaxTail) : Len(q) >= 1}}
    \cup
    {Request("api", Padding(3) \o <<5>>, NoMatchPolicy(NoWeights), strict,
             ConfigFilters, ConfigScorers) :
        strict \in BOOLEAN}

\* GetPairingList called on providers that list a feature twice
FeatureRequests ==
    {Request("api", ps, pol, TRUE, ConfigFilters, ConfigScorers) :
        ps \in SeqsUpTo(FeaturePool, MaxLen),
        pol \in {MockPolicy(NoWeights), DupPolicy(NoWeights)}}

\* parallelFilterThreshold providers exactly: the location filter rejects
\* all of them but the last one, p
AtThreshold(p) == [i \in 1..parallelFilterThreshold |->
                      IF i < parallelFilterThreshold THEN 3 ELSE p]

\* GetPairingList called on exactly as many providers as the threshold
ThresholdRequests ==
    {Request("api", AtThreshold(p), MockPolicy(MockWeights), TRUE,
             ConfigFilters, ConfigScorers) : p \in {3, 5}}

\* FilterProviders called by itself
FilterProvidersRequests ==
    {Request("FilterProviders", ps, MockPolicy(NoWeights), FALSE,
             ConfigFilters, ConfigScorers) :
        ps \in SeqsUpTo(SmallPool, MaxLen)
                \cup {AtThreshold(5), Padding(3) \o <<5>>}}

\* RankProviders called by itself, on providers no filter has selected
RankProvidersRequests ==
    {Request("RankProviders", ps, pol, FALSE, NoFilters, ConfigScorers) :
        ps \in SeqsUpTo(SmallPool, MaxLen),
        pol \in {OpenPolicy(NoWeights), NoMatchPolicy(NoWeights)}}

Requests ==
    MainRequests \cup MockRequests \cup SmallRequests \cup WideRequests
        \cup LongRequests \cup FeatureRequests \cup ThresholdRequests
        \cup FilterProvidersRequests \cup RankProvidersRequests

(***************************************************************************)
(* Specification.                                                          *)
(***************************************************************************)
InitOf(R) ==
    /\ \E r \in R :
           /\ entry = r.entry
           /\ providers = r.providers
           /\ policy = r.policy
           /\ strictMode = r.strictMode
           /\ filters = r.filters
           /\ scorers = r.scorers
    /\ pc = IF entry = "api" THEN "GetPairingList" ELSE entry
    /\ filterPool = NoPool
    /\ rankPool = NoPool
    /\ filtered = IF entry = "RankProviders" THEN providers ELSE <<>>
    /\ ctx = NoCtx
    /\ scores = <<>>
    /\ scored = <<>>
    /\ topProviders = <<>>
    /\ err = FALSE

Init == InitOf(Requests)

Next ==
    \/ MainRejects
    \/ MainCalls
    \/ FilterNone
    \/ FilterSequential
    \/ FilterParallel
    \/ FilterFeed
    \/ FilterCloseTasks
    \/ filterWorkerRecv
    \/ filterWorker
    \/ filterWorkerExit
    \/ FilterCloseResults
    \/ FilterCollect
    \/ FilterReturn
    \/ NoMatchStrict
    \/ NoMatchLenient
    \/ RankNone
    \/ RankStart
    \/ RankFeed
    \/ RankCloseTasks
    \/ rankWorkerRecv
    \/ rankWorker
    \/ rankWorkerExit
    \/ RankCloseResults
    \/ RankCollect
    \/ RankReturn
    \/ SortAndSelect

Spec == Init /\ [][Next]_vars


\* the providers that follow the padding in the long lists of the
\* specification with fair scheduling
FairTails == {<<5>>, <<5, 8>>}

\* the policies of the requests through main in that specification: one
\* that main passes on, one it rejects and one that no provider matches
FairPolicies ==
    {MockPolicy(MockWeights), MockPolicy(InvalidWeights), NoMatchPolicy(MockWeights)}

\* the lists RankProviders is called on by itself in that specification
FairRankLists == {<<>>, <<1>>, <<11, 1>>, <<1, 9>>}

\* the requests of the specification with fair scheduling: main, lists
\* longer than the threshold, FilterProviders and RankProviders called by
\* themselves
FairRequests ==
    {r \in MainRequests : r.policy \in FairPolicies}
        \cup {r \in LongRequests :
                 \E tail \in FairTails : r.providers = Padding(3) \o tail}
        \cup FilterProvidersRequests
        \cup {r \in RankProvidersRequests : r.providers \in FairRankLists}

\* the Go scheduler runs a goroutine that can take a step: the program does
\* not stop while one of its goroutines can go on
FairSpec == InitOf(FairRequests) /\ [][Next]_vars /\ WF_vars(Next)

(***************************************************************************)
(* Properties.                                                             *)
(***************************************************************************)
\* FilterProviders has returned
FilterDone ==
    \/ /\ entry \in {"main", "api"}
       /\ pc \in {"filtered", "rankFeed", "rankCollect", "ranked", "done"}
    \/ /\ entry = "FilterProviders"
       /\ pc = "returned"

\* GetPairingList has returned
Returned == pc = "done"

\* the identifiers of a list of providers
IDs(ps) == [i \in 1..Len(ps) |-> Heap[ps[i]].ID]

\* the final scores an iteration of rankWorker can give provider p in this
\* request, one for every order of the range over components
ScoresOf(p) == {r.Score : r \in PairingScores(scorers, p, policy, ctx)}

\* every PairingScore record of the request: sent, collected or sorted
ScoreRecords ==
    Range(rankPool.results) \cup Range(scores) \cup Range(scored)

\* the record a rank worker sends in this step, if it sends one
SentRecords ==
    IF Len(rankPool'.results) = Len(rankPool.results) + 1
    THEN {rankPool'.results[Len(rankPool'.results)]}
    ELSE {}

\* the step adds no record to those of the request but the one a rank worker
\* sends
OnlySentRecords == ScoreRecords' \subseteq ScoreRecords \cup SentRecords

\* C1: on the sequential path and on the worker-pool path alike, a provider
\* is in the output of FilterProviders if and only if it is in the input and
\* ApplySingle is true for it for every configured filter: every provider
\* published or collected passes every filter, and once FilterProviders has
\* returned every input provider that passes every filter is in the output.
C1_FilterConjunctivity ==
    /\ \A p \in Range(filtered) \cup Range(filterPool.results) :
           /\ p \in Range(providers)
           /\ \A f \in Range(filters) : ApplySingle(f, p, policy)
    /\ FilterDone =>
           \A p \in Range(providers) :
               (\A f \in Range(filters) : ApplySingle(f, p, policy))
                   => p \in Range(filtered)

\* C1 witness: the worker pool filtered a list, keeping some providers and
\* rejecting others.
C1_Witness ==
    /\ FilterDone
    /\ filterPool.started
    /\ filtered # <<>>
    /\ Range(filtered) # Range(providers)

\* C2: GetPairingList returns an error if and only if strict mode is enabled
\* and the filter stage yields no provider; with strict mode disabled the
\* empty filter result gives an empty list and no error.
C2_StrictError ==
    Returned =>
        /\ err <=> (strictMode /\ Len(filtered) = 0)
        /\ (~strictMode /\ Len(filtered) = 0) => (topProviders = <<>> /\ ~err)
        /\ Len(filtered) # 0 => ~err

\* C2 witness: a strict-mode request ended with the error.
C2_Witness ==
    /\ Returned
    /\ strictMode
    /\ Len(filtered) = 0
    /\ Len(providers) > 0
    /\ err

\* the list GetPairingList returns when every result arrives in feed order
\* and every range over components visits them in the same order
InOrderResult ==
    LET fs == SequentialFilter(filters, providers, policy)
        c == PreScoreContext(fs)
        sc == [i \in 1..Len(fs) |->
                  CHOOSE r \in PairingScores(scorers, fs[i], policy, c) : TRUE]
    IN  TopProviders(SortSlice(sc))

\* of any two filtered providers with different identifiers, every final
\* score one of them can get is greater than every final score the other can
\* get.  possible is the set of pairs of a provider and its possible scores.
Separated ==
    LET T(possible) ==
            \A x, y \in possible :
                Heap[x[1]].ID # Heap[y[1]].ID =>
                    \/ \A a \in x[2], b \in y[2] : FLess(a, b)
                    \/ \A a \in x[2], b \in y[2] : FLess(b, a)
    IN  Force(T, {<<p, ScoresOf(p)>> : p \in Range(filtered)})

\* C3 as claimed: whatever the interleaving, and also when filtered providers
\* have equal final scores, GetPairingList returns the identifiers it returns
\* when the results arrive in feed order.
C3_Original ==
    Returned => IDs(topProviders) = IDs(InOrderResult)

\* C3 as amended: GetPairingList returns the same ordered list of identifiers
\* whatever the interleaving and whatever the order in which the weighted sums
\* are accumulated, provided that of any two filtered providers with
\* different identifiers one has every possible final score greater than
\* every possible final score of the other.
C3_DeterministicWhenSeparated ==
    (Returned /\ Separated) => IDs(topProviders) = IDs(InOrderResult)

\* C3 witness: the rank results arrived in another order than the tasks were
\* fed, a provider got another final score than the in-order run gives it,
\* and the possible scores of the providers are separated.
C3_Witness ==
    /\ Returned
    /\ Len(scores) >= 2
    /\ [i \in 1..Len(scores) |-> scores[i].Provider] # filtered
    /\ \E i \in 1..Len(scored) :
           Cardinality(ScoresOf(scored[i].Provider)) > 1
    /\ Separated

\* C4 as claimed: for every input the length of the list GetPairingList
\* returns is min(5, number of filtered providers), and fewer than 5 filtered
\* providers is never an error.
C4_Original ==
    Returned =>
        /\ Len(topProviders) = (IF Len(filtered) < 5 THEN Len(filtered) ELSE 5)
        /\ Len(filtered) < 5 => ~err

\* C4 as amended: for every input the length of the list GetPairingList
\* returns is min(5, number of filtered providers), and GetPairingList
\* returns an error exactly when no provider survives the filters and the
\* mode is strict: 1 to 4 filtered providers are no error, and neither is an
\* empty filtered list in lenient mode.
C4_TopNLength ==
    Returned =>
        /\ Len(topProviders) = (IF Len(filtered) < 5 THEN Len(filtered) ELSE 5)
        /\ err <=> (Len(filtered) = 0 /\ strictMode)

\* C4 witness: GetPairingList returned 3 providers, fewer than 5, in strict
\* mode and without an error.
C4_Witness ==
    /\ Returned
    /\ strictMode
    /\ Len(filtered) = 3
    /\ Len(topProviders) = 3
    /\ ~err

\* C5: the returned list is in non-increasing order of final score, and no
\* filtered provider left out of it has a final score strictly greater than
\* the final score of a provider in it: the sorted records are in
\* non-increasing order of score, there is one for every filtered provider,
\* and the returned providers are those of the first records.
C5_SortedTop ==
    (Returned /\ ~err) =>
        /\ \A i, j \in 1..Len(scored) :
               i < j => FLeq(scored[j].Score, scored[i].Score)
        /\ Len(scored) = Len(filtered)
        /\ \A p \in Range(filtered) :
               Cardinality({i \in 1..Len(scored) : scored[i].Provider = p})
                   = Cardinality({i \in 1..Len(filtered) : filtered[i] = p})
        /\ Len(topProviders) <= Len(scored)
        /\ \A i \in 1..Len(topProviders) : topProviders[i] = scored[i].Provider

\* C5 witness: a list of several providers was returned and a filtered
\* provider was left out.
C5_Witness ==
    /\ Returned
    /\ Len(topProviders) >= 2
    /\ Range(filtered) \ Range(topProviders) # {}


\* Scenario A: the 8 mock providers, the mock policy with its weights, and
\* the filters and scorers of config.Init
ScenarioA ==
    /\ providers = MockProviders
    /\ policy = MockPolicy(MockWeights)
    /\ filters = ConfigFilters
    /\ scorers = ConfigScorers

\* C6 as claimed: in Scenario A provider 5 is the first element of the list
\* GetPairingList returns.
C6_Original ==
    (Returned /\ ScenarioA) =>
        (Len(topProviders) >= 1 /\ Heap[topProviders[1]].ID = "5")

\* the greatest float64 less than x, for x > 0 that is not a power of two
Below(x) == <<BSub(x[1], <<1>>), x[2]>>

\* C6 as amended: in Scenario A provider 8 is ranked highest (final score
\* 0.88 or the float64 just below it, by the order of the range over
\* components), provider 5 second (final score the float64 nearest 23/30 or
\* the one just below it) and provider 1 third (final score the float64
\* nearest 7/15).
C6_ScenarioARanking ==
    (Returned /\ ScenarioA) =>
        /\ IDs(topProviders) = <<"8", "5", "1">>
        /\ Len(scored) = 3
        /\ \A i \in 1..3 : scored[i].Provider = topProviders[i]
        /\ scored[1].Score \in {F64(88, 100), Below(F64(88, 100))}
        /\ scored[2].Score \in {F64(23, 30), Below(F64(23, 30))}
        /\ scored[3].Score = F64(7, 15)

\* C6 witness: GetPairingList returned a list in Scenario A, with the lower
\* of the two final scores for provider 8 and the higher for provider 5.
C6_Witness ==
    /\ Returned
    /\ ScenarioA
    /\ Len(topProviders) = 3
    /\ scored[1].Score = Below(F64(88, 100))
    /\ scored[2].Score = F64(23, 30)

\* C7: for the 8 mock providers and the location, features and minimum stake
\* of Scenario A, FilterProviders retains exactly the providers 1, 5 and 8.
C7_ScenarioAFilter ==
    (/\ FilterDone
     /\ providers = MockProviders
     /\ policy \in {MockPolicy(w) : w \in WeightMaps}
     /\ filters = ConfigFilters) =>
        /\ Len(filtered) = 3
        /\ Range(IDs(filtered)) = {"1", "5", "8"}

\* C7 witness: FilterProviders returned for the mock providers and policy.
C7_Witness ==
    /\ pc = "filtered"
    /\ providers = MockProviders
    /\ policy = MockPolicy(MockWeights)
    /\ filters = ConfigFilters
    /\ filtered # <<>>

\* the raw output of every configured scorer for provider p, in scorer order
RawOutputs(p) == [i \in 1..Len(scorers) |-> Score(scorers[i], p, policy, ctx)]

\* the sum of the elements of q, from the first to the last
SeqSum(q) ==
    LET RECURSIVE Go(_, _)
        Go(i, total) ==
            IF i > Len(q) THEN total
            ELSE LET T(t) == Go(i + 1, t)
                 IN  Force(T, FAdd(total, q[i]))
    IN  Go(1, Zero)

\* the arithmetic mean of the raw outputs for p, 0 without any scorer
MeanOf(p) ==
    IF Len(scorers) = 0 THEN Zero
    ELSE FDiv(SeqSum(RawOutputs(p)), FromInt(Len(scorers)))

\* the sums, over the configured scorers named by a key of the weights, of
\* raw output times weight: one for every order of the terms
WeightedOf(p) ==
    LET named == Range(scorers) \cap DOMAIN policy.Weights
        T(term) == {SumOver(order, term) : order \in IterationOrders(named)}
    IN  Force(T, Eager([name \in named |->
                           FMul(Score(name, p, policy, ctx), policy.Weights[name])]))

\* C8: with an empty weight mapping the final score of every PairingScore is
\* the arithmetic mean of the N raw scorer outputs, 0 when N = 0; with a
\* non-empty mapping it is a weighted sum, so the averaging mode is selected
\* if and only if the mapping is empty.  Every record of the request is one a
\* rank worker has sent, and it has that score when it is sent.
C8_AverageMode ==
    [][/\ OnlySentRecords
       /\ \A r \in SentRecords :
              IF DOMAIN policy.Weights = {}
              THEN r.Score = MeanOf(r.Provider)
              ELSE r.Score \in WeightedOf(r.Provider)]_vars

\* C8 witness: a provider was scored without weights by several scorers whose
\* raw outputs differ.
C8_Witness ==
    \E r \in ScoreRecords :
        /\ DOMAIN policy.Weights = {}
        /\ Len(scorers) >= 2
        /\ \E a, b \in DOMAIN r.Components : r.Components[a] # r.Components[b]

\* raw outputs a scorer may give
RawValues == {Zero, Half, One}

\* the final scores rankWorker can give a provider with this components map
\* under the weights of the policy
ScoresFrom(components) ==
    LET T(terms) ==
            {FinalScore(order, terms, TotalScore(scorers, components),
                        Len(scorers), policy.Weights) :
                order \in RangeOrders(terms, policy.Weights)}
    IN  Force(T, WeightedTerms(components, policy.Weights))

\* C9 as claimed: with a non-empty weight mapping the final score of a
\* provider is one value, the sum over the scorers named by the mapping of
\* raw output times weight, the same in every run.
C9_Original ==
    \A r \in ScoreRecords :
        DOMAIN policy.Weights # {} => WeightedOf(r.Provider) = {r.Score}

\* C9 as amended: with a non-empty weight mapping the final score is the sum
\* over the scorers named by the mapping of raw output times weight, added up
\* in the order of the range over components, and changing the raw output of
\* a scorer the mapping does not name leaves the final scores a provider can
\* get unchanged.  Every record of the request is one a rank worker has
\* sent, and it has that score when it is sent.
C9_WeightedOmission ==
    [][/\ OnlySentRecords
       /\ \A r \in SentRecords :
              DOMAIN policy.Weights # {} =>
                  LET T(sums) ==
                          /\ r.Score \in sums
                          /\ \A name \in DOMAIN r.Components \ DOMAIN policy.Weights :
                                 \A v \in RawValues :
                                     ScoresFrom([r.Components EXCEPT ![name] = v]) = sums
                  IN  Force(T, WeightedOf(r.Provider))]_vars

\* C9 witness: a provider was scored under weights that leave out a scorer
\* whose raw output is not 0, and the order of the range over components
\* changes its final score.
C9_Witness ==
    \E r \in ScoreRecords :
        /\ DOMAIN policy.Weights # {}
        /\ \E name \in DOMAIN r.Components \ DOMAIN policy.Weights :
               r.Components[name] # Zero
        /\ r.Score # Zero
        /\ Cardinality(WeightedOf(r.Provider)) > 1

\* C10 as claimed: with weights that are not empty and do not sum to 1, the
\* run through main still reaches GetPairingList and every final score is
\* the arithmetic mean of all scorer outputs.
C10_InvalidWeightsFallBack ==
    (\E order \in IterationOrders(DOMAIN policy.Weights) :
        ValidateWeights(order, policy.Weights)) =>
        /\ pc # "rejected"
        /\ \A r \in ScoreRecords : r.Score = MeanOf(r.Provider)

\* FilterProviders has just returned
FilterReturned == FilterDone /\ pc \in {"filtered", "returned"}

\* the location filter is one of the filters of the request and
\* FilterProviders has just returned
LocationFiltered == FilterReturned /\ "LocationFilter" \in Range(filters)

\* the providers of ps whose location equals the required one, letter case
\* ignored
FoldMatches(ps) ==
    LET Keep(p) == EqualFold(Heap[p].Location, policy.RequiredLocation)
    IN  SelectIdx(ps, Keep)

\* C11 as claimed: the location filter keeps a provider exactly when its
\* location equals the required location of the policy ignoring letter case,
\* so a provider whose location differs from it in case only is kept by
\* ApplySingle, by Apply and by FilterProviders.
C11_Original ==
    LocationFiltered =>
        /\ \A p \in Range(providers) :
               LocationFilterApplySingle(p, policy)
                   <=> EqualFold(Heap[p].Location, policy.RequiredLocation)
        /\ LocationFilterApply(providers, policy) = FoldMatches(providers)
        /\ \A p \in Range(providers) :
               (/\ EqualFold(Heap[p].Location, policy.RequiredLocation)
                /\ FeatureFilterApplySingle(p, policy)
                /\ StakeFilterApplySingle(p, policy)) => p \in Range(filtered)

\* the input providers for which ApplySingle is true for every configured
\* filter, in input order
Survivors ==
    LET Keep(p) == \A f \in Range(filters) : ApplySingle(f, p, policy)
    IN  SelectIdx(providers, Keep)

\* how many times the pointer p occurs in the list ps
Count(ps, p) == Cardinality({i \in 1..Len(ps) : ps[i] = p})

\* C12 as claimed: FilterProviders returns a subsequence of its input, the
\* surviving providers in the relative order they had in the input, on the
\* worker-pool path as on the sequential path.
C12_Original == FilterReturned => filtered = Survivors

\* C12: FilterProviders returns the surviving providers of its input, each
\* as many times as the input lists it; when the input has at most 50
\* providers they are in the relative order they had in the input, and when
\* it has more the order is the one in which the workers publish them.
C12_OrderUpToThreshold ==
    FilterReturned =>
        /\ \A p \in Range(providers) \cup Range(filtered) :
               Count(filtered, p) = Count(Survivors, p)
        /\ Len(providers) <= 50 => filtered = Survivors

\* C12 witness: the worker pool returned two surviving providers in the
\* order opposite to their order in the input.
C12_Witness ==
    /\ FilterDone
    /\ filterPool.started
    /\ Len(filtered) = 2
    /\ filtered = <<Survivors[2], Survivors[1]>>
    /\ filtered # Survivors

\* RankProviders has built its context and started its workers
RankStarted == rankPool.started

\* RankProviders has just returned the records of a list that is not empty:
\* scores holds every record its workers have sent
RankReturned == RankStarted /\ pc \in {"ranked", "returned"}

\* x lies in [0, 1]
InUnit(x) == FLeq(Zero, x) /\ FLeq(x, One)

\* the normalization contexts RankProviders builds from the pools of one
\* provider of the request
SingleContexts == {PreScoreContext(<<q>>) : q \in Range(providers)}

\* C13 as claimed: for every provider, every policy and every normalization
\* context, those built from another pool included, the output of each of
\* the four scorers lies in [0, 1] inclusive.
C13_Original ==
    RankReturned =>
        \A p \in Range(filtered), c \in SingleContexts :
            \A s \in {"StakeScore", "FeatureScore", "LocationScore", "FeeScore"} :
                InUnit(Score(s, p, policy, c))

\* C13 as amended: for every provider RankProviders is given, every policy
\* and the normalization context RankProviders builds from those providers,
\* the output of each of the four scorers (stake, feature, location, fee)
\* lies in [0, 1] inclusive: so does every component of every PairingScore
\* record.
C13_ScoreBounded ==
    RankReturned =>
        /\ \A p \in Range(filtered) :
               \A s \in {"StakeScore", "FeatureScore", "LocationScore", "FeeScore"} :
                   InUnit(Score(s, p, policy, ctx))
        /\ \A r \in ScoreRecords :
               \A s \in DOMAIN r.Components : InUnit(r.Components[s])

\* C13 witness: a record was sent whose components reach both ends of the
\* interval and its inside: stake score 1, fee score 0, location score 0.5,
\* feature score 1/3.
C13_Witness ==
    \E r \in ScoreRecords :
        /\ DOMAIN r.Components
               = {"StakeScore", "FeatureScore", "LocationScore", "FeeScore"}
        /\ r.Components["StakeScore"] = One
        /\ r.Components["FeeScore"] = Zero
        /\ r.Components["LocationScore"] = Half
        /\ r.Components["FeatureScore"] = F64(1, 3)

\* the features of provider p as a set
FeatureSet(p) == Range(Heap[p].Features)

\* the feature score over distinct features: distinct features of p that the
\* policy does not require, over distinct features of p
DistinctFeatureScore(p) ==
    IF FeatureSet(p) = {} THEN Zero
    ELSE F64(Cardinality(FeatureSet(p) \ Range(policy.RequiredFeatures)),
             Cardinality(FeatureSet(p)))

\* C14: the feature score of a provider is (number of distinct provider
\* features not in policy.RequiredFeatures) / (number of distinct provider
\* features), so a feature the provider lists twice does not count twice; it
\* is 0 for a provider with no features and 0 for a provider whose features
\* are exactly the required ones.
C14_DistinctFeatureScore ==
    RankReturned =>
        /\ \A p \in Range(filtered) :
               /\ FeatureScore(p, policy, ctx) = DistinctFeatureScore(p)
               /\ FeatureSet(p) = {} => FeatureScore(p, policy, ctx) = Zero
               /\ FeatureSet(p) = Range(policy.RequiredFeatures)
                      => FeatureScore(p, policy, ctx) = Zero
        /\ \A r \in ScoreRecords :
               "FeatureScore" \in DOMAIN r.Components
                   => r.Components["FeatureScore"] = DistinctFeatureScore(r.Provider)

\* the feature filter is one of the filters of the request and
\* FilterProviders has just returned
FeatureFiltered == FilterReturned /\ "FeatureFilter" \in Range(filters)

\* every required feature occurs among the features of provider p
Supports(p) == Range(policy.RequiredFeatures) \subseteq FeatureSet(p)

\* the providers of ps that support every required feature
Supporters(ps) ==
    LET Keep(p) == Supports(p)
    IN  SelectIdx(ps, Keep)

\* C15: the feature filter, Apply and ApplySingle alike, keeps a provider if
\* and only if every feature of policy.RequiredFeatures occurs in the
\* provider's feature list, whatever is listed twice in either list; an empty
\* required-feature list keeps every provider.
C15_FeatureSuperset ==
    FeatureFiltered =>
        /\ \A p \in Range(providers) :
               FeatureFilterApplySingle(p, policy) <=> Supports(p)
        /\ FeatureFilterApply(providers, policy) = Supporters(providers)
        /\ policy.RequiredFeatures = <<>>
               => FeatureFilterApply(providers, policy) = providers
        /\ \A p \in Range(filtered) : Supports(p)
        /\ \A p \in Range(providers) :
               (/\ Supports(p)
                /\ \A f \in Range(filters) \ {"FeatureFilter"} :
                       ApplySingle(f, p, policy)) => p \in Range(filtered)

\* C15 witness: under a policy that lists a required feature twice, a
\* provider that lists a feature twice was kept and a provider that lacks a
\* required feature was rejected.
C15_Witness ==
    /\ FeatureFiltered
    /\ Len(policy.RequiredFeatures) # Cardinality(Range(policy.RequiredFeatures))
    /\ \E p \in Range(filtered) : Len(Heap[p].Features) # Cardinality(FeatureSet(p))
    /\ \E p \in Range(providers) \ Range(filtered) : ~Supports(p)

\* the three filters of internal/filter
AllFilters == {"LocationFilter", "FeatureFilter", "StakeFilter"}

\* the subsequence of ps made of the providers for which ApplySingle of the
\* filter f is true
SingleSelected(f, ps) ==
    LET Keep(p) == ApplySingle(f, p, policy)
    IN  SelectIdx(ps, Keep)

\* C16: for each of the three filters (location, feature, stake), Apply on a
\* provider list and a policy equals the subsequence of the list made of
\* exactly the providers for which ApplySingle is true under that policy;
\* stated of the list a request passes and of the list its filter stage
\* returns.
C16_ApplyIsSelection ==
    FilterReturned =>
        \A f \in AllFilters :
            /\ Apply(f, providers, policy) = SingleSelected(f, providers)
            /\ Apply(f, filtered, policy) = SingleSelected(f, filtered)

\* C16 witness: the sequential path has applied the three filters to a list
\* of which each filter rejects some providers and keeps others.
C16_Witness ==
    /\ FilterDone
    /\ ~filterPool.started
    /\ filters = ConfigFilters
    /\ filtered # <<>>
    /\ \A f \in AllFilters :
           /\ Apply(f, providers, policy) # providers
           /\ Apply(f, providers, policy) # <<>>

\* every provider RankProviders is given has stake 0
AllStakeZero ==
    /\ filtered # <<>>
    /\ \A p \in Range(filtered) : Heap[p].Stake = 0

\* C17: for a pool in which every provider has stake 0, RankProviders stores
\* a maximum stake of 1 in the normalization context and the stake score of
\* every provider is 0: the divisor of the stake score is never 0.
C17_ZeroStakePool ==
    (RankReturned /\ AllStakeZero) =>
        /\ ctx.MaxStake = 1
        /\ \A p \in Range(filtered) : StakeScore(p, policy, ctx) = Zero
        /\ \A r \in ScoreRecords :
               "StakeScore" \in DOMAIN r.Components
                   => r.Components["StakeScore"] = Zero

\* C17 witness: RankProviders has scored two providers of stake 0 with the
\* stake scorer.
C17_Witness ==
    /\ AllStakeZero
    /\ Len(filtered) = 2
    /\ Len(scores) = 2
    /\ \A i \in 1..2 : "StakeScore" \in DOMAIN scores[i].Components
    /\ ctx.MaxStake = 1

\* the fees of the providers RankProviders is given
PoolFees == {Heap[p].Fee : p \in Range(filtered)}

\* the greatest of them, replaced by 1 when it is 0
PoolMaxFee ==
    LET m == CHOOSE x \in PoolFees : \A y \in PoolFees : FLeq(y, x)
    IN  IF m = Zero THEN One ELSE m

\* 1 minus the fee of provider p divided by the greatest fee of the pool
InvertedFee(p) == FSub(One, FDiv(Heap[p].Fee, PoolMaxFee))

\* C18: the fee score of a provider scored by RankProviders is 1 minus its
\* fee divided by the maximum fee over the providers passed to RankProviders,
\* that maximum being replaced by 1 when it is 0; so when every fee of the
\* pool is 0 every fee score is 1, and otherwise the provider with the
\* maximum fee scores 0.
C18_FeeScore ==
    RankReturned =>
        /\ \A p \in Range(filtered) :
               /\ FeeScore(p, policy, ctx) = InvertedFee(p)
               /\ PoolFees = {Zero} => FeeScore(p, policy, ctx) = One
               /\ (PoolFees # {Zero} /\ Heap[p].Fee = PoolMaxFee)
                      => FeeScore(p, policy, ctx) = Zero
        /\ \A r \in ScoreRecords :
               "FeeScore" \in DOMAIN r.Components
                   => r.Components["FeeScore"] = InvertedFee(r.Provider)

\* C18 witness: RankProviders has scored a pool of several fees with the fee
\* scorer: the provider of the greatest fee has fee score 0, another a fee
\* score strictly between 0 and 1.
C18_Witness ==
    /\ Cardinality(PoolFees) >= 3
    /\ Len(scores) = Len(filtered)
    /\ \E i, j \in 1..Len(scores) :
           /\ "FeeScore" \in DOMAIN scores[i].Components
           /\ scores[i].Components["FeeScore"] = Zero
           /\ Heap[scores[i].Provider].Fee = PoolMaxFee
           /\ FLess(Zero, scores[j].Components["FeeScore"])
           /\ FLess(scores[j].Components["FeeScore"], One)

\* C19: given an empty provider list, FilterProviders and RankProviders each
\* return an empty sequence and no error, without starting any worker or
\* building a normalization context: called by themselves, and FilterProviders
\* also when GetPairingList calls it.
C19_EmptyInput ==
    /\ (entry = "FilterProviders" /\ providers = <<>>) =>
           /\ ~filterPool.started /\ ~rankPool.started
           /\ ctx = NoCtx
           /\ filtered = <<>>
           /\ ~err
           /\ pc \in {"FilterProviders", "returned"}
    /\ (entry = "RankProviders" /\ providers = <<>>) =>
           /\ ~filterPool.started /\ ~rankPool.started
           /\ ctx = NoCtx
           /\ scores = <<>>
           /\ ~err
           /\ pc \in {"RankProviders", "returned"}
    /\ (entry \in {"main", "api"} /\ providers = <<>>) =>
           /\ ~filterPool.started /\ ~rankPool.started
           /\ ctx = NoCtx
           /\ filtered = <<>>
           /\ pc = "filtered" => ~err

\* C19 witness: RankProviders, called on the empty list, has returned.
C19_Witness ==
    /\ entry = "RankProviders"
    /\ providers = <<>>
    /\ pc = "returned"
    /\ scores = <<>>
    /\ ~rankPool.started

\* FilterProviders is running or has returned
FilterEntered ==
    /\ entry \in {"api", "main", "FilterProviders"}
    /\ pc \notin {"main", "rejected", "GetPairingList", "FilterProviders"}

\* C20 as claimed: the filter stage runs sequentially when the number of
\* input providers is below 50 and on the worker pool when it is 50 or more:
\* an input of exactly 50 providers is filtered by the worker pool.
C20_Original ==
    FilterEntered =>
        /\ Len(providers) >= 50 => filterPool.started
        /\ Len(providers) < 50 => ~filterPool.started

\* C20: the filter stage runs sequentially when the number of input
\* providers is at most 50 and on the worker pool when it is above 50: an
\* input of exactly 50 providers is filtered sequentially, without a worker.
C20_SequentialAtThreshold ==
    FilterEntered =>
        /\ Len(providers) > 50 => filterPool.started
        /\ Len(providers) <= 50 => ~filterPool.started

\* C20 witness: FilterProviders has filtered exactly 50 providers without a
\* worker and kept one of them.
C20_Witness ==
    /\ FilterDone
    /\ Len(providers) = 50
    /\ ~filterPool.started
    /\ Len(filtered) = 1

\* RankProviders has been given a list that is not empty and has gone past
\* its test for the empty list
RankEntered ==
    /\ filtered # <<>>
    /\ \/ pc \in {"rankFeed", "rankCollect", "ranked", "done"}
       \/ entry = "RankProviders" /\ pc = "returned"

\* the workers of the pool: waiting, holding a provider, or returned
Workers(pool) == pool.idle + BagCardinality(pool.busy) + pool.exited

\* C21 as claimed: the execution-strategy choice applies to the score stage
\* as well: given a list that is not empty and shorter than the threshold,
\* RankProviders scores the providers in a single control flow and starts no
\* worker.
C21_Original ==
    (RankEntered /\ Len(filtered) < parallelFilterThreshold) => ~rankPool.started

\* C21: the execution-strategy choice applies to the filter stage only:
\* given any list that is not empty, however short, RankProviders makes the
\* two channels with the capacity of the list and starts its 10 workers, and
\* every score it returns has come through the result channel.
C21_RankAlwaysPool ==
    RankEntered =>
        /\ rankPool.started
        /\ rankPool.capacity = Len(filtered)
        /\ Workers(rankPool) = workerCount
        /\ Len(scores) + Len(rankPool.results) + BagCardinality(rankPool.busy)
               + Len(rankPool.tasks) = rankPool.fed

\* C21 witness: RankProviders has returned the score of a single provider,
\* which one of its 10 workers computed.
C21_Witness ==
    /\ entry = "RankProviders"
    /\ pc = "returned"
    /\ Len(filtered) = 1
    /\ Len(scores) = 1
    /\ rankPool.started
    /\ rankPool.exited = workerCount

\* the result channel of the pool, fed from a list of n providers, is closed
\* only when every task has been fed and taken and every worker has finished
\* its last iteration and returned
ClosedAfterWorkers(pool, n) ==
    pool.resultsClosed =>
        /\ pool.tasksClosed
        /\ pool.fed = n
        /\ pool.tasks = <<>>
        /\ pool.busy = EmptyBag
        /\ pool.idle = 0
        /\ pool.exited = workerCount

\* a step that changes the closed flag of the result channel closes a channel
\* that is open, after every worker has returned
ClosesOnce(pool, poolAfter) ==
    poolAfter.resultsClosed # pool.resultsClosed =>
        /\ ~pool.resultsClosed
        /\ pool.started
        /\ pool.exited = workerCount
        /\ poolAfter.results = pool.results

\* the stage has returned to its caller
FilterPoolReturned == FilterDone /\ filterPool.started
RankPoolReturned ==
    rankPool.started /\ pc \in {"ranked", "done", "returned"}

\* C22: in both worker-pool stages the result channel is closed exactly once
\* and only after every worker has taken its last task and finished its last
\* send, so no worker sends on a closed result channel; and the collector
\* stops reading only when the channel is closed and empty, with every
\* published result collected.
C22_CloseAfterWorkers ==
    /\ [](/\ ClosedAfterWorkers(filterPool, Len(providers))
          /\ ClosedAfterWorkers(rankPool, Len(filtered))
          /\ FilterPoolReturned =>
                 /\ filterPool.resultsClosed
                 /\ filterPool.results = <<>>
                 /\ Len(filtered) = Len(Survivors)
          /\ RankPoolReturned =>
                 /\ rankPool.resultsClosed
                 /\ rankPool.results = <<>>
                 /\ Len(scores) = Len(filtered))
    /\ [][/\ ClosesOnce(filterPool, filterPool')
          /\ ClosesOnce(rankPool, rankPool')]_vars

\* C22 witness: in one request both result channels were closed, the filter
\* stage's after its workers had published two providers.
C22_Witness ==
    /\ filterPool.resultsClosed
    /\ rankPool.resultsClosed
    /\ Len(filtered) = 2
    /\ Len(scores) = 2

\* the providers the records of a list of PairingScore refer to
ProvidersOf(rs) == [i \in 1..Len(rs) |-> rs[i].Provider]

\* how many copies of p a bag holds
Copies(b, p) == IF p \in BagToSet(b) THEN b[p] ELSE 0

\* the providers of the list that have not been fed yet
Unfed == SubSeq(filtered, rankPool.fed + 1, Len(filtered))

\* C23: RankProviders returns exactly one PairingScore per input provider:
\* each task placed on the work queue is taken by exactly one worker, so at
\* every moment each input provider is, as many times as the input lists it,
\* either not yet fed, queued, held by one worker, published or collected,
\* and the providers of the returned scores are the input providers with the
\* same multiplicities, under every interleaving of the 10 workers.
C23_OneScorePerProvider ==
    RankEntered =>
        /\ \A p \in Range(filtered) \cup Range(ProvidersOf(scores))
                    \cup Range(ProvidersOf(rankPool.results))
                    \cup Range(rankPool.tasks) \cup BagToSet(rankPool.busy) :
               Count(Unfed, p) + Count(rankPool.tasks, p) + Copies(rankPool.busy, p)
                   + Count(ProvidersOf(rankPool.results), p)
                   + Count(ProvidersOf(scores), p) = Count(filtered, p)
        /\ pc \in {"ranked", "done", "returned"} =>
               /\ Len(scores) = Len(filtered)
               /\ \A p \in Range(filtered) :
                      Count(ProvidersOf(scores), p) = Count(filtered, p)

\* C23 witness: RankProviders has returned six scores for a list of six
\* providers in which two providers are listed twice, in another order than
\* the list's.
C23_Witness ==
    /\ pc = "ranked"
    /\ Len(filtered) = 6
    /\ Len(scores) = 6
    /\ \E p \in Range(filtered) : Count(ProvidersOf(scores), p) = 2
    /\ ProvidersOf(scores) # filtered

\* the call the request makes has returned
Terminated == pc \in {"done", "rejected", "returned"}

\* the workers of the pool have all returned and its result channel is closed
PoolFinished(pool) ==
    /\ pool.exited = workerCount
    /\ pool.busy = EmptyBag
    /\ pool.resultsClosed
    /\ pool.results = <<>>

\* C24: for every finite provider list, parallelFilterProviders and
\* RankProviders terminate under fair scheduling: once a stage has started
\* its workers, every worker exits, the closer goroutine closes the result
\* channel and the collector loop ends, and the call of the request returns.
\* No reachable state is a deadlock: a state without a next step is one in
\* which the call has returned.
C24_Termination ==
    /\ [](ENABLED Next \/ Terminated)
    /\ filterPool.started
           ~> (PoolFinished(filterPool) /\ pc \notin {"filterFeed", "filterCollect"})
    /\ rankPool.started
           ~> (PoolFinished(rankPool) /\ pc \notin {"rankFeed", "rankCollect"})
    /\ <>Terminated

\* C24 witness: GetPairingList has returned after both stages ran on their
\* workers and all 20 workers exited.
C24_Witness ==
    /\ pc = "done"
    /\ Len(providers) > parallelFilterThreshold
    /\ PoolFinished(filterPool)
    /\ PoolFinished(rankPool)
    /\ Len(topProviders) = 2

\* the queues of a pool fed from a list of n providers hold at most n items,
\* the next send of the feeding loop finds room in the task queue, and the
\* next send of a worker that holds a provider finds room in the result queue
NeverFull(pool, n, feeding) ==
    pool.started =>
        /\ pool.capacity = n
        /\ Len(pool.tasks) <= pool.capacity
        /\ Len(pool.results) <= pool.capacity
        /\ (feeding /\ pool.fed < n) => Len(pool.tasks) < pool.capacity
        /\ pool.busy # EmptyBag =>
               Len(pool.results) + BagCardinality(pool.busy) <= pool.capacity

\* C25: in both worker-pool stages the number of items held in the work
\* queue and in the result queue never exceeds the batch size, which is the
\* capacity of the channels: the orchestrator never blocks while feeding
\* tasks and a worker never blocks while publishing a result, even though the
\* collector starts reading only after all tasks have been fed.
C25_QueuesWithinBatch ==
    /\ NeverFull(filterPool, Len(providers), pc = "filterFeed")
    /\ NeverFull(rankPool, Len(filtered), pc = "rankFeed")

\* C25 witness: the result queue of the score stage holds one record for
\* every provider of the list and the collector has not started reading.
C25_Witness ==
    /\ pc = "rankFeed"
    /\ rankPool.capacity >= 2
    /\ Len(rankPool.results) = rankPool.capacity

\* the step writes the context: it is the first write of the request, made
\* from the list the filter stage returned, with no rank worker started
BuildsContext ==
    /\ ctx = NoCtx
    /\ RankCalled
    /\ entry \in {"main", "api"} => FilterDone
    /\ ~rankPool.started
    /\ ctx' = PreScoreContext(filtered)
    /\ filtered' = filtered

\* the record a rank worker sends in this step is one it computes from the
\* context ctx, and the step adds no other record to those of the request
ScoredWithContext ==
    /\ OnlySentRecords
    /\ \A r \in SentRecords :
           r \in PairingScores(scorers, r.Provider, policy, ctx)

\* C26: within one request the normalization context is built exactly once,
\* after the filter stage has returned and before any rank worker is started,
\* and it is never written afterwards: every scorer call of the request
\* reads the same maximum stake and the same normalized-fee map.  The one
\* write stores the context of the filtered list, the list does not change
\* once the context is built, and every record is sent with the scores that
\* context gives.
C26_ContextBuiltOnce ==
    /\ [](rankPool.started => ctx # NoCtx)
    /\ [](~rankPool.started => ctx = NoCtx)
    /\ [][ctx' # ctx => BuildsContext]_vars
    /\ [][ctx # NoCtx => filtered' = filtered]_vars
    /\ [][ScoredWithContext]_vars

\* C26 witness: GetPairingList has returned the ranking of three providers
\* with different stakes and fees, scored by the four scorers of config.Init
\* with the one context built from the three.
C26_Witness ==
    /\ entry \in {"main", "api"}
    /\ pc = "done"
    /\ Len(filtered) = 3
    /\ Len(scores) = 3
    /\ Cardinality(DOMAIN ctx.NormalizedFees) = 3
    /\ Len(scorers) = 4
    /\ ctx.MaxStake > 1

\* a worker of the pool has not returned yet
WorkerRunning(pool) == pool.started /\ pool.exited < workerCount

\* the filter stage has fully drained: the task channel is closed and empty,
\* every filter worker has exited, the result channel is closed and read to
\* its end
FilterDrained ==
    /\ filterPool.tasksClosed
    /\ filterPool.tasks = <<>>
    /\ filterPool.fed = Len(providers)
    /\ PoolFinished(filterPool)

\* C27: within one GetPairingList request no rank worker runs while a filter
\* worker is still running: the score stage is started only after every
\* filter worker has exited and the filter result channel has been closed and
\* fully read.
C27_StagesDoNotOverlap ==
    /\ [](~(WorkerRunning(rankPool) /\ WorkerRunning(filterPool)))
    /\ []((rankPool.started /\ filterPool.started) => FilterDrained)
    /\ [][(~rankPool.started /\ rankPool'.started /\ filterPool.started)
              => (FilterDrained /\ filterPool' = filterPool)]_vars

\* C27 witness: a rank worker holds a provider of a request whose list went
\* through the filter worker pool, and the ten filter workers have exited.
C27_Witness ==
    /\ entry \in {"main", "api"}
    /\ filterPool.started
    /\ filterPool.exited = workerCount
    /\ WorkerRunning(rankPool)
    /\ rankPool.busy # EmptyBag

\* FilterProviders has returned the empty list to GetPairingList
NoMatch ==
    /\ entry \in {"main", "api"}
    /\ FilterDone
    /\ filtered = <<>>

\* nothing of the score stage, the sort or the selection has happened
Downstream ==
    \/ ctx # NoCtx
    \/ rankPool # NoPool
    \/ scores # <<>>
    \/ scored # <<>>
    \/ topProviders # <<>>

\* C28: when the filter stage yields no provider, GetPairingList ends in the
\* short-circuit branch in both modes: it never builds a normalization
\* context, never starts a rank worker and never sorts or truncates. The
\* one step it takes is the return, with the error in strict mode and
\* without it in lenient mode.
C28_NoMatchShortCircuit ==
    /\ [](NoMatch => (pc \in {"filtered", "done"} /\ ~Downstream))
    /\ []((NoMatch /\ pc = "done") => (err <=> strictMode))
    /\ [][(NoMatch /\ pc = "filtered") => (pc' = "done" /\ ~Downstream')]_vars

\* C28 witness: a lenient request whose providers all fail a filter has
\* returned from the short-circuit branch.
C28_Witness ==
    /\ NoMatch
    /\ pc = "done"
    /\ ~strictMode
    /\ Len(providers) >= 2
    /\ Len(filters) >= 1

\* policy.Weights is not empty and none of its keys is the Name() of a
\* configured scorer
NoScorerNamed ==
    /\ DOMAIN policy.Weights # {}
    /\ DOMAIN policy.Weights \cap Range(scorers) = {}

\* the final score of every record is 0 and its components are the raw
\* outputs of the configured scorers
ZeroWithRawComponents(records) ==
    \A i \in 1..Len(records) :
        /\ records[i].Score = Zero
        /\ DOMAIN records[i].Components = Range(scorers)
        /\ \A name \in Range(scorers) :
               records[i].Components[name] =
                   Score(name, records[i].Provider, policy, ctx)

\* C29: if policy.Weights is non-empty but none of its keys equals the
\* Name() of a configured scorer, the final score of every provider is 0
\* while Components still holds each raw scorer output, so all filtered
\* providers tie.
C29_UnnamedWeightsTie ==
    NoScorerNamed =>
        /\ ZeroWithRawComponents(rankPool.results)
        /\ ZeroWithRawComponents(scores)
        /\ ZeroWithRawComponents(scored)

\* C29 witness: a request with the weights keyed "Stake", "Feature",
\* "Location" has returned two or more providers, scored by the four scorers
\* of config.Init, and a raw component of the first record is not 0.
C29_Witness ==
    /\ NoScorerNamed
    /\ pc = "done"
    /\ Len(scorers) = 4
    /\ Len(scored) >= 2
    /\ Len(topProviders) = Len(scored)
    /\ scored[1].Components["StakeScore"] # Zero
    /\ scored[1].Components["LocationScore"] = One

\* GetPairingList with the filters and the scorers of config.Init
ConfigWired ==
    /\ entry \in {"main", "api"}
    /\ filters = ConfigFilters
    /\ scorers = ConfigScorers

\* the final scores provider p can get when the location scorer is not
\* configured
ScoresWithoutLocation(p) ==
    {r.Score : r \in PairingScores(SelectSeq(scorers, LAMBDA s : s # "LocationScore"),
                                   p, policy, ctx)}

\* the location component of every record is 1.0
LocationIsOne(records) ==
    \A i \in 1..Len(records) : records[i].Components["LocationScore"] = One

\* the records compare as they would without the location scorer
SameOrderWithoutLocation(records) ==
    \A i, j \in 1..Len(records) :
        Less(records[i], records[j])
            <=> \A a \in ScoresWithoutLocation(records[i].Provider),
                   b \in ScoresWithoutLocation(records[j].Provider) : FLess(b, a)

\* a record with a greater final score than another does not belong to a
\* provider with the smaller score of the two without the location scorer
NotReversedByLocation(records) ==
    \A i, j \in 1..Len(records) :
        Less(records[i], records[j])
            => \A a \in ScoresWithoutLocation(records[i].Provider),
                  b \in ScoresWithoutLocation(records[j].Provider) : FLeq(b, a)

\* two providers of the result with different scores without the location
\* scorer have different scores, in the same order, with it
KeptByLocation(records) ==
    \A i, j \in 1..Len(records) :
        (\A a \in ScoresWithoutLocation(records[i].Provider),
            b \in ScoresWithoutLocation(records[j].Provider) : FLess(b, a))
            => Less(records[i], records[j])

=============================================================================
